---------------------------- MODULE Spec2Model ----------------------------
(***************************************************************************)
(* Workout-session lifecycle of the rcpfit backend                         *)
(* (backend/app/api/routers/workouts.py, analytics.py, exercises.py) over  *)
(* the relational store reached through backend/app/core/db.py.            *)
(*                                                                         *)
(* Every request handler runs in a database transaction of its own         *)
(* (get_session: one AsyncSession per request, commit after the handler,   *)
(* rollback on an exception).  The engine is created without an            *)
(* isolation_level, so the transactions run at PostgreSQL's default,       *)
(* READ COMMITTED: every statement reads the rows committed when it runs,  *)
(* a write waits for a concurrent uncommitted write of the same row or     *)
(* unique key, and writes become visible to others at COMMIT.              *)
(*                                                                         *)
(* Abstractions: weights are integers; a score is kept multiplied by 30    *)
(* (Score30), so weight * (1 + reps/30) is the exact integer               *)
(* weight * (30 + reps); floating-point rounding is not modelled.          *)
(* Timestamps are values of a logical clock.                               *)
(***************************************************************************)
EXTENDS Integers, Sequences, FiniteSets, TLC

\* ------------------------------------------------------------------ bounds
\* Primary keys the sequences of workout_drafts / completed_sessions hand out.
MaxDraftId == 2
MaxSessionId == 2
\* The last instant of the logical clock.
MaxTime == 1

\* --------------------------------------------------------------- optionals
\* Python's None / a present value, for Optional[...] attributes.
None == << >>
Some(x) == << x >>
IsNone(o) == o = << >>
Val(o) == o[1]

\* ----------------------------------------------------------- fixture rows
\* Rows present when the model starts: two registered users, user 1 with a
\* split and one template of three exercises, linked in an order that is
\* neither the order of the links' ids nor that of the exercises' ids, and
\* an exercise outside the template; user 2 with one exercise.  No row ever
\* has the id 9.
Users == {1, 2}
InitSplits == { [id |-> 1, user_id |-> 1] }
InitTemplates == { [id |-> 1, split_id |-> 1, name |-> "push"] }
InitTemplateExercises ==
    { [id |-> 1, template_id |-> 1, exercise_definition_id |-> 1, order |-> 2],
      [id |-> 2, template_id |-> 1, exercise_definition_id |-> 5, order |-> 0],
      [id |-> 3, template_id |-> 1, exercise_definition_id |-> 4, order |-> 1] }
InitExercises ==
    { [id |-> 1, user_id |-> 1, name |-> "squat"],
      [id |-> 2, user_id |-> 1, name |-> "bench"],
      [id |-> 3, user_id |-> 2, name |-> "row"],
      [id |-> 4, user_id |-> 1, name |-> "press"],
      [id |-> 5, user_id |-> 1, name |-> "curl"] }

\* ------------------------------------------------------ schemas/workout.py
\* SetData(reps, weight, completed); SetData() is the empty set entry.
SetData(reps, weight, completed) ==
    [reps |-> reps, weight |-> weight, completed |-> completed]
EmptySetData == SetData(None, None, FALSE)
\* ExerciseData(definition_id, name, sets, is_done)
ExerciseData(definition_id, name, sets, is_done) ==
    [definition_id |-> definition_id, name |-> name, sets |-> sets,
     is_done |-> is_done]

\* Request bodies of PUT /workouts/draft the clients of the model send.  The
\* schema types the payload and checks nothing else, so a payload may name
\* any definition_id, repeat one, and carry null or non-positive values.
Payloads ==
    { << >>,
      << ExerciseData(2, "bench",
                      << SetData(Some(5), Some(10), TRUE),
                         SetData(Some(5), Some(0), TRUE),
                         SetData(Some(0), Some(10), FALSE) >>, TRUE) >>,
      << ExerciseData(1, "squat", << SetData(Some(1), Some(1), FALSE) >>, FALSE),
         ExerciseData(1, "squat",
                      << EmptySetData, SetData(Some(2), Some(1), TRUE) >>, FALSE) >>,
      << ExerciseData(3, "row",
                      << SetData(None, Some(4), TRUE),
                         SetData(Some(3), Some(2), FALSE) >>, FALSE) >>,
      << ExerciseData(9, "ghost",
                      << SetData(Some(1), Some(1), TRUE) >>, FALSE) >>,
      << ExerciseData(2, "bench",
                      << EmptySetData, SetData(Some(0 - 1), Some(2), TRUE) >>, TRUE) >> }


\* ------------------------------------------------------------------- state
VARIABLES
    workout_drafts,      \* committed rows of table workout_drafts
    completed_sessions,  \* committed rows of table completed_sessions
    completed_sets,      \* committed rows of table completed_sets
    exercise_definitions,\* committed rows of table exercise_definitions
    splits,              \* committed rows of table splits
    templates,           \* committed rows of table templates
    template_exercises,  \* committed rows of table template_exercises
    next_draft_id,       \* sequence behind workout_drafts.id
    next_session_id,     \* sequence behind completed_sessions.id
    next_set_id,         \* sequence behind completed_sets.id
    now,                 \* what datetime.utcnow() returns
    req,                 \* request slot -> the handler running in it
    converted,           \* history: session id -> the draft row its Finish read
    last_event           \* history: user -> last committed change of the draft slot

vars == << workout_drafts, completed_sessions, completed_sets,
           exercise_definitions, splits, templates, template_exercises,
           next_draft_id, next_session_id, next_set_id,
           now, req, converted, last_event >>

\* The request handlers that run concurrently, each with a session (and so a
\* transaction) of its own.
Requests == {1, 2}

\* What a session holds between flush and commit: rows written but not yet
\* visible to other transactions.
NoPending ==
    [ins_draft |-> None, upd_draft |-> None, del_draft |-> None,
     ins_session |-> None, ins_sets |-> << >>]

Idle ==
    [op |-> "idle", pc |-> "idle", user |-> 0, template_id |-> None,
     payload |-> << >>, exercise_id |-> 0, draft |-> None,
     pending |-> NoPending, status |-> 0, response |-> None,
     rows |-> << >>]

Init ==
    /\ workout_drafts = {}
    /\ completed_sessions = {}
    /\ completed_sets = {}
    /\ exercise_definitions = InitExercises
    /\ splits = InitSplits
    /\ templates = InitTemplates
    /\ template_exercises = InitTemplateExercises
    /\ next_draft_id = 1
    /\ next_session_id = 1
    /\ next_set_id = 1
    /\ now = 0
    /\ req = [r \in Requests |-> Idle]
    /\ converted = {}
    /\ last_event = [u \in Users |-> "none"]

\* ---------------------------------------------------------- store queries
\* select(WorkoutDraft).where(WorkoutDraft.user_id == current_user.id)
\*   .scalar_one_or_none(): the committed rows the statement sees.
DraftsOf(u) == {d \in workout_drafts : d.user_id = u}
\* Mutant: the SELECT without its where clause.
SelectAnyDraft(u) ==
    IF workout_drafts = {} THEN None
    ELSE Some(CHOOSE d \in workout_drafts : TRUE)
SelectDraft(u) ==
    IF DraftsOf(u) = {} THEN None ELSE Some(CHOOSE d \in DraftsOf(u) : TRUE)

\* The row locks and unique-key entries another open transaction holds.
OthersPending(r) == {req[q].pending : q \in Requests \ {r}}
DraftRowLocked(r, id) ==
    \E p \in OthersPending(r) :
        \/ (~IsNone(p.upd_draft) /\ Val(p.upd_draft).id = id)
        \/ (~IsNone(p.del_draft) /\ Val(p.del_draft) = id)
\* An INSERT of a draft for user u waits for an uncommitted INSERT of the same
\* user_id, and for an uncommitted DELETE of the committed row that has it.
DraftKeyLocked(r, u) ==
    \E p \in OthersPending(r) :
        \/ (~IsNone(p.ins_draft) /\ Val(p.ins_draft).user_id = u)
        \/ (~IsNone(p.del_draft)
              /\ \E d \in DraftsOf(u) : d.id = Val(p.del_draft))

\* The draft as WorkoutDraftRead returns it.
WorkoutDraftRead(d) ==
    [id |-> d.id, template_id |-> d.template_id,
     session_data |-> d.session_data, started_at |-> d.started_at,
     updated_at |-> d.updated_at]

\* A finished request's response is delivered (Release) before the server
\* takes another step: a response is read against the store as it was when
\* the request finished.
Delivered == \A q \in Requests : req[q].pc # "done"

\* Mutant: get_session without its except branch: what the handler flushed
\* before it raised is committed.
RaiseWithoutRollback(slot, code) ==
    [slot EXCEPT !.pc = "commit", !.status = code, !.response = None]

\* A handler that raised: get_session rolls the transaction back, and the
\* caller gets the error status.
Raise(slot, code) ==
    [slot EXCEPT !.pc = "done", !.status = code, !.pending = NoPending,
                 !.response = None]

\* ----------------------------------------------------------- start_workout
\* Mutant: the template looked up without the join on its split's user.
AnyUsersTemplates(u, template_id) ==
    {t \in templates : t.id = template_id}

\* The template with its links, if it exists and its split is the user's.
OwnedTemplates(u, template_id) ==
    {t \in templates :
        /\ t.id = template_id
        /\ \E sp \in splits : sp.id = t.split_id /\ sp.user_id = u}

\* Mutant: the links as loaded, in the order of their ids, not sorted.
RECURSIVE InLinkIdOrder(_)
InLinkIdOrder(links) ==
    IF links = {} THEN << >>
    ELSE LET first == CHOOSE l \in links : \A m \in links : l.id <= m.id
         IN << first >> \o InLinkIdOrder(links \ {first})

\* sorted(template.template_exercises, key=lambda x: x.order)
RECURSIVE SortedByOrder(_)
SortedByOrder(links) ==
    IF links = {} THEN << >>
    ELSE LET first == CHOOSE l \in links : \A m \in links : l.order <= m.order
         IN << first >> \o SortedByOrder(links \ {first})

ExerciseName(id) ==
    (CHOOSE e \in exercise_definitions : e.id = id).name

\* One ExerciseData per link: the exercise's id and current name, one empty
\* set, is_done False.
RECURSIVE CopyLinks(_)
CopyLinks(links) ==
    IF links = << >> THEN << >>
    ELSE << ExerciseData(Head(links).exercise_definition_id,
                         ExerciseName(Head(links).exercise_definition_id),
                         << EmptySetData >>, FALSE) >>
         \o CopyLinks(Tail(links))

TemplateExercisesData(template_id) ==
    CopyLinks(SortedByOrder({l \in template_exercises :
                                 l.template_id = template_id}))

\* Mutant: workout_drafts.user_id without its unique index.
NoUniqueIndex(u) == FALSE
\* The unique index on workout_drafts.user_id rejects the INSERT.
UniqueViolation(u) == DraftsOf(u) # {}

\* Mutant: start_workout looking the template up before the existing draft.
StartReadTemplateFirst(r, u, template_id) ==
    /\ Delivered
    /\ req[r].pc = "idle"
    /\ LET existing == SelectDraft(u)
           slot == [Idle EXCEPT !.op = "start", !.user = u,
                                !.template_id = template_id]
       IN req' = [req EXCEPT ![r] =
              IF ~IsNone(template_id) /\ OwnedTemplates(u, Val(template_id)) = {}
              THEN Raise(slot, 404)
              ELSE IF ~IsNone(existing)
              THEN [slot EXCEPT !.pc = "done", !.status = 201,
                                !.draft = existing,
                                !.response = Some(WorkoutDraftRead(Val(existing)))]
              ELSE [slot EXCEPT !.pc = "start_insert"]]
    /\ UNCHANGED << workout_drafts, completed_sessions, completed_sets,
                    exercise_definitions, splits, templates,
                    template_exercises, next_draft_id, next_session_id,
                    next_set_id, now, converted, last_event >>

\* Mutant: start_workout without the lookup of an existing draft.
StartReadNoLookup(r, u, template_id) ==
    /\ Delivered
    /\ req[r].pc = "idle"
    /\ req' = [req EXCEPT ![r] =
           [Idle EXCEPT !.op = "start", !.user = u,
                        !.template_id = template_id, !.pc = "start_insert"]]
    /\ UNCHANGED << workout_drafts, completed_sessions, completed_sets,
                    exercise_definitions, splits, templates,
                    template_exercises, next_draft_id, next_session_id,
                    next_set_id, now, converted, last_event >>

\* Lines 42-57: the draft lookup; an existing draft is returned as it is.
StartRead(r, u, template_id) ==
    /\ Delivered
    /\ req[r].pc = "idle"
    /\ LET existing == SelectDraft(u)
           slot == [Idle EXCEPT !.op = "start", !.user = u,
                                !.template_id = template_id]
       IN req' = [req EXCEPT ![r] =
              IF ~IsNone(existing)
              THEN [slot EXCEPT !.pc = "done", !.status = 201,
                                !.draft = existing,
                                !.response = Some(WorkoutDraftRead(Val(existing)))]
              ELSE [slot EXCEPT !.pc = "start_insert"]]
    /\ UNCHANGED << workout_drafts, completed_sessions, completed_sets,
                    exercise_definitions, splits, templates,
                    template_exercises, next_draft_id, next_session_id,
                    next_set_id, now, converted, last_event >>

\* Lines 59-118: the template lookup, then the INSERT of the new draft
\* (session.add, flush, refresh).
StartInsert(r) ==
    /\ Delivered
    /\ req[r].pc = "start_insert"
    /\ LET u == req[r].user
           t == req[r].template_id
       IN IF ~IsNone(t) /\ OwnedTemplates(u, Val(t)) = {}
          THEN /\ req' = [req EXCEPT ![r] = Raise(@, 404)]
               /\ UNCHANGED next_draft_id
          ELSE /\ ~DraftKeyLocked(r, u)
               /\ next_draft_id <= MaxDraftId
               /\ next_draft_id' = next_draft_id + 1
               /\ IF UniqueViolation(u)
                  THEN req' = [req EXCEPT ![r] = Raise(@, 500)]
                  ELSE LET new_draft ==
                              [id |-> next_draft_id, user_id |-> u,
                               template_id |-> t,
                               session_data |->
                                   IF IsNone(t) THEN << >>
                                   ELSE TemplateExercisesData(Val(t)),
                               started_at |-> now, updated_at |-> now]
                       IN req' = [req EXCEPT ![r] =
                              [@ EXCEPT !.pc = "commit", !.status = 201,
                                        !.pending.ins_draft = Some(new_draft),
                                        !.response =
                                            Some(WorkoutDraftRead(new_draft))]]
    /\ UNCHANGED << workout_drafts, completed_sessions, completed_sets,
                    exercise_definitions, splits, templates,
                    template_exercises, next_session_id, next_set_id, now,
                    converted, last_event >>

\* -------------------------------------------------------------- get_draft
GetDraft(r, u) ==
    /\ Delivered
    /\ req[r].pc = "idle"
    /\ LET draft == SelectDraft(u)
           slot == [Idle EXCEPT !.op = "get", !.user = u, !.draft = draft]
       IN req' = [req EXCEPT ![r] =
              IF IsNone(draft) THEN Raise(slot, 404)
              ELSE [slot EXCEPT !.pc = "done", !.status = 200,
                                !.response = Some(WorkoutDraftRead(Val(draft)))]]
    /\ UNCHANGED << workout_drafts, completed_sessions, completed_sets,
                    exercise_definitions, splits, templates,
                    template_exercises, next_draft_id, next_session_id,
                    next_set_id, now, converted, last_event >>

\* ---------------------------------------------------- UPDATE of the draft
\* The ORM's UPDATE ... WHERE id = :id of the loaded draft, with the rows
\* committed when it runs: no row left to match raises StaleDataError.
DraftRowExists(id) == \E d \in workout_drafts : d.id = id
CommittedDraft(id) == CHOOSE d \in workout_drafts : d.id = id

\* Mutant: session_data written, updated_at left as it was.
FlushDraftUpdateKeepingTime(slot, session_data) ==
    LET id == Val(slot.draft).id IN
    IF ~DraftRowExists(id) THEN Raise(slot, 500)
    ELSE LET row == [CommittedDraft(id) EXCEPT !.session_data = session_data]
         IN [slot EXCEPT !.pc = "commit", !.status = 200,
                         !.pending.upd_draft =
                             Some([id |-> id, session_data |-> session_data,
                                   updated_at |-> row.updated_at]),
                         !.response = Some(WorkoutDraftRead(row))]

\* flush of the changed session_data and updated_at, then refresh.
FlushDraftUpdate(slot, session_data) ==
    LET id == Val(slot.draft).id IN
    IF ~DraftRowExists(id) THEN Raise(slot, 500)
    ELSE LET row == [CommittedDraft(id) EXCEPT !.session_data = session_data,
                                                !.updated_at = now]
         IN [slot EXCEPT !.pc = "commit", !.status = 200,
                         !.pending.upd_draft =
                             Some([id |-> id, session_data |-> session_data,
                                   updated_at |-> now]),
                         !.response = Some(WorkoutDraftRead(row))]

\* ------------------------------------------------------------ update_draft
\* Lines 160-169.
UpdateRead(r, u, payload) ==
    /\ Delivered
    /\ req[r].pc = "idle"
    /\ LET draft == SelectDraft(u)
           slot == [Idle EXCEPT !.op = "update", !.user = u,
                                !.payload = payload, !.draft = draft]
       IN req' = [req EXCEPT ![r] =
              IF IsNone(draft) THEN Raise(slot, 404)
              ELSE [slot EXCEPT !.pc = "update_flush"]]
    /\ UNCHANGED << workout_drafts, completed_sessions, completed_sets,
                    exercise_definitions, splits, templates,
                    template_exercises, next_draft_id, next_session_id,
                    next_set_id, now, converted, last_event >>

\* Lines 171-184.
UpdateFlush(r) ==
    /\ Delivered
    /\ req[r].pc = "update_flush"
    /\ ~DraftRowLocked(r, Val(req[r].draft).id)
    /\ req' = [req EXCEPT ![r] = FlushDraftUpdate(@, @.payload)]
    /\ UNCHANGED << workout_drafts, completed_sessions, completed_sets,
                    exercise_definitions, splits, templates,
                    template_exercises, next_draft_id, next_session_id,
                    next_set_id, now, converted, last_event >>

\* --------------------------------------------------- add_exercise_to_draft
\* Lines 197-207.
AddRead(r, u, exercise_id) ==
    /\ Delivered
    /\ req[r].pc = "idle"
    /\ LET draft == SelectDraft(u)
           slot == [Idle EXCEPT !.op = "add", !.user = u,
                                !.exercise_id = exercise_id, !.draft = draft]
       IN req' = [req EXCEPT ![r] =
              IF IsNone(draft) THEN Raise(slot, 404)
              ELSE [slot EXCEPT !.pc = "add_flush"]]
    /\ UNCHANGED << workout_drafts, completed_sessions, completed_sets,
                    exercise_definitions, splits, templates,
                    template_exercises, next_draft_id, next_session_id,
                    next_set_id, now, converted, last_event >>

\* Mutant: the exercise looked up by its id alone.
AnyUsersExercises(u, exercise_id) ==
    {e \in exercise_definitions : e.id = exercise_id}

\* select(ExerciseDefinition).where(id == ..., user_id == current_user.id)
OwnedExercises(u, exercise_id) ==
    {e \in exercise_definitions : e.id = exercise_id /\ e.user_id = u}

\* Mutant: add_exercise_to_draft without its duplicate check.
NoDuplicateCheck(session_data, exercise_id) == FALSE

\* Lines 227-233: the exercise is already an entry of the draft.
AlreadyInDraft(session_data, exercise_id) ==
    \E i \in 1 .. Len(session_data) :
        session_data[i].definition_id = exercise_id

\* Mutant: the new entry put in front of the draft's entries.
AddFlushPrepending(r) ==
    /\ Delivered
    /\ req[r].pc = "add_flush"
    /\ LET slot == req[r]
           found == OwnedExercises(slot.user, slot.exercise_id)
           data == Val(slot.draft).session_data
       IN IF found = {}
          THEN req' = [req EXCEPT ![r] = Raise(slot, 404)]
          ELSE IF AlreadyInDraft(data, slot.exercise_id)
          THEN req' = [req EXCEPT ![r] = Raise(slot, 400)]
          ELSE LET exercise == CHOOSE e \in found : TRUE
                   new_exercise == ExerciseData(exercise.id, exercise.name,
                                                << EmptySetData >>, FALSE)
               IN /\ ~DraftRowLocked(r, Val(slot.draft).id)
                  /\ req' = [req EXCEPT ![r] =
                         FlushDraftUpdate(slot, << new_exercise >> \o data)]
    /\ UNCHANGED << workout_drafts, completed_sessions, completed_sets,
                    exercise_definitions, splits, templates,
                    template_exercises, next_draft_id, next_session_id,
                    next_set_id, now, converted, last_event >>

\* Lines 209-257: the ownership check, the duplicate check on the draft as
\* this handler loaded it, the append and the UPDATE.
AddFlush(r) ==
    /\ Delivered
    /\ req[r].pc = "add_flush"
    /\ LET slot == req[r]
           found == OwnedExercises(slot.user, slot.exercise_id)
           data == Val(slot.draft).session_data
       IN IF found = {}
          THEN req' = [req EXCEPT ![r] = Raise(slot, 404)]
          ELSE IF AlreadyInDraft(data, slot.exercise_id)
          THEN req' = [req EXCEPT ![r] = Raise(slot, 400)]
          ELSE LET exercise == CHOOSE e \in found : TRUE
                   new_exercise == ExerciseData(exercise.id, exercise.name,
                                                << EmptySetData >>, FALSE)
               IN /\ ~DraftRowLocked(r, Val(slot.draft).id)
                  /\ req' = [req EXCEPT ![r] =
                         FlushDraftUpdate(slot, Append(data, new_exercise))]
    /\ UNCHANGED << workout_drafts, completed_sessions, completed_sets,
                    exercise_definitions, splits, templates,
                    template_exercises, next_draft_id, next_session_id,
                    next_set_id, now, converted, last_event >>

\* ---------------------------------------------------------- finish_workout
\* Mutant: the validity test without its comparisons with 0.
IsValidSetPresent(set_data) ==
    /\ ~IsNone(set_data.reps)
    /\ ~IsNone(set_data.weight)

\* Mutant: the validity test without its weight > 0.
IsValidSetRepsOnly(set_data) ==
    /\ ~IsNone(set_data.reps)
    /\ ~IsNone(set_data.weight)
    /\ Val(set_data.reps) > 0

\* Mutant: a set counts only if it is marked completed.
IsValidSetCompleted(set_data) ==
    /\ ~IsNone(set_data.reps)
    /\ ~IsNone(set_data.weight)
    /\ Val(set_data.reps) > 0
    /\ Val(set_data.weight) > 0
    /\ set_data.completed

\* Lines 301-306: the set counts.
IsValidSet(set_data) ==
    /\ ~IsNone(set_data.reps)
    /\ ~IsNone(set_data.weight)
    /\ Val(set_data.reps) > 0
    /\ Val(set_data.weight) > 0

\* Mutant: weight * (1 + reps // 30), the division of integers.
EpleyFloorDivision30(weight, reps) == weight * (30 + 30 * (reps \div 30))

\* Line 309, times 30: weight * (1 + reps / 30).
EpleyScore30(weight, reps) == weight * (30 + reps)

\* Mutant: total_session_score = epley_score.
OverwriteScore(total, epley_score) == epley_score

\* Line 310: total_session_score += epley_score.
AddScore(total, epley_score) == total + epley_score

\* Lines 299-318: the sets of one exercise entry, from set i on.
RECURSIVE SetLoop(_, _, _, _, _)
SetLoop(exercise, i, set_number, data, total) ==
    IF i > Len(exercise.sets) THEN [data |-> data, total |-> total]
    ELSE LET set_data == exercise.sets[i] IN
         IF IsValidSet(set_data)
         THEN LET epley_score ==
                      EpleyScore30(Val(set_data.weight), Val(set_data.reps))
              IN SetLoop(exercise, i + 1, set_number + 1,
                         Append(data,
                                [exercise_definition_id |-> exercise.definition_id,
                                 set_number |-> set_number + 1,
                                 reps |-> Val(set_data.reps),
                                 weight |-> Val(set_data.weight),
                                 epley_score |-> epley_score]),
                         AddScore(total, epley_score))
         ELSE SetLoop(exercise, i + 1, set_number, data, total)

\* Lines 294-318: the exercise entries from entry j on; set_number restarts
\* at 0 for every entry.
RECURSIVE ExerciseLoop(_, _, _, _)
ExerciseLoop(exercises, j, data, total) ==
    IF j > Len(exercises) THEN [data |-> data, total |-> total]
    ELSE LET done == SetLoop(exercises[j], 1, 0, data, total)
         IN ExerciseLoop(exercises, j + 1, done.data, done.total)

\* completed_sets_data and total_session_score of a draft's session_data.
CollectSets(session_data) == ExerciseLoop(session_data, 1, << >>, 0)

\* Lines 278-288.
FinishRead(r, u) ==
    /\ Delivered
    /\ req[r].pc = "idle"
    /\ LET draft == SelectDraft(u)
           slot == [Idle EXCEPT !.op = "finish", !.user = u, !.draft = draft]
       IN req' = [req EXCEPT ![r] =
              IF IsNone(draft) THEN Raise(slot, 404)
              ELSE [slot EXCEPT !.pc = "finish_session"]]
    /\ UNCHANGED << workout_drafts, completed_sessions, completed_sets,
                    exercise_definitions, splits, templates,
                    template_exercises, next_draft_id, next_session_id,
                    next_set_id, now, converted, last_event >>

\* Mutant: the CompletedSession committed by a commit of its own where the
\* handler only flushes it.
FinishSessionCommitted(r) ==
    /\ Delivered
    /\ req[r].pc = "finish_session"
    /\ next_session_id <= MaxSessionId
    /\ next_session_id' = next_session_id + 1
    /\ LET draft == Val(req[r].draft)
           completed_session ==
               [id |-> next_session_id, user_id |-> req[r].user,
                template_id |-> draft.template_id,
                started_at |-> draft.started_at, completed_at |-> now,
                session_score |-> CollectSets(draft.session_data).total]
       IN /\ req' = [req EXCEPT ![r] =
                 [@ EXCEPT !.pc = "finish_sets",
                           !.pending.ins_session = Some(completed_session)]]
          /\ completed_sessions' = completed_sessions \cup {completed_session}
          /\ converted' = converted \cup
                 {[session_id |-> completed_session.id, draft |-> draft]}
    /\ UNCHANGED << workout_drafts, completed_sets, exercise_definitions,
                    splits, templates, template_exercises, next_draft_id,
                    next_set_id, now, last_event >>

\* Mutant: started_at taken from the clock and not from the draft.
FinishSessionStartedNow(r) ==
    /\ Delivered
    /\ req[r].pc = "finish_session"
    /\ next_session_id <= MaxSessionId
    /\ next_session_id' = next_session_id + 1
    /\ LET draft == Val(req[r].draft)
           completed_session ==
               [id |-> next_session_id, user_id |-> req[r].user,
                template_id |-> draft.template_id,
                started_at |-> now, completed_at |-> now,
                session_score |-> CollectSets(draft.session_data).total]
       IN req' = [req EXCEPT ![r] =
              [@ EXCEPT !.pc = "finish_sets",
                        !.pending.ins_session = Some(completed_session)]]
    /\ UNCHANGED << workout_drafts, completed_sessions, completed_sets,
                    exercise_definitions, splits, templates,
                    template_exercises, next_draft_id, next_set_id, now,
                    converted, last_event >>

\* Lines 290-331: the scores, then the INSERT of the CompletedSession
\* (session.add, flush, refresh).  The row stays in the transaction.
FinishSession(r) ==
    /\ Delivered
    /\ req[r].pc = "finish_session"
    /\ next_session_id <= MaxSessionId
    /\ next_session_id' = next_session_id + 1
    /\ LET draft == Val(req[r].draft)
           completed_session ==
               [id |-> next_session_id, user_id |-> req[r].user,
                template_id |-> draft.template_id,
                started_at |-> draft.started_at, completed_at |-> now,
                session_score |-> CollectSets(draft.session_data).total]
       IN req' = [req EXCEPT ![r] =
              [@ EXCEPT !.pc = "finish_sets",
                        !.pending.ins_session = Some(completed_session)]]
    /\ UNCHANGED << workout_drafts, completed_sessions, completed_sets,
                    exercise_definitions, splits, templates,
                    template_exercises, next_draft_id, next_set_id, now,
                    converted, last_event >>

\* completed_sets.exercise_definition_id references exercise_definitions.id.
ExerciseExists(id) == \E e \in exercise_definitions : e.id = id

\* Mutant: the CompletedSet rows linked to the first session of the table
\* instead of completed_session.id.
SetRowsOfFirstSession(data, session_id, first_id) ==
    [i \in 1 .. Len(data) |->
        [id |-> first_id + i - 1, session_id |-> 1,
         exercise_definition_id |-> data[i].exercise_definition_id,
         set_number |-> data[i].set_number, reps |-> data[i].reps,
         weight |-> data[i].weight, epley_score |-> data[i].epley_score]]

\* The CompletedSet rows of lines 333-345, with the ids the flush gives them.
RECURSIVE SetRows(_, _, _)
SetRows(data, session_id, first_id) ==
    IF data = << >> THEN << >>
    ELSE << [id |-> first_id, session_id |-> session_id,
             exercise_definition_id |-> Head(data).exercise_definition_id,
             set_number |-> Head(data).set_number, reps |-> Head(data).reps,
             weight |-> Head(data).weight,
             epley_score |-> Head(data).epley_score] >>
         \o SetRows(Tail(data), session_id, first_id + 1)

CompletedSetRead(row) ==
    [id |-> row.id, exercise_definition_id |-> row.exercise_definition_id,
     set_number |-> row.set_number, reps |-> row.reps, weight |-> row.weight,
     epley_score |-> row.epley_score]

\* Mutant: the response built from the rows last to first.
ReadAllReversed(rows) ==
    [i \in 1 .. Len(rows) |-> CompletedSetRead(rows[Len(rows) + 1 - i])]

\* Lines 369-379: completed_sets_read, one CompletedSetRead per row of the
\* list completed_sets, in the order of the list.
ReadAll(rows) == [i \in 1 .. Len(rows) |-> CompletedSetRead(rows[i])]

\* Lines 333-388: the flush that INSERTs the CompletedSet rows and DELETEs
\* the draft.  A set of an exercise that has no row fails the foreign key
\* (IntegrityError).  A DELETE that matches no row, the draft being gone,
\* is a warning of the ORM (confirm_deleted_rows) and not an error.
FinishSets(r) ==
    /\ Delivered
    /\ req[r].pc = "finish_sets"
    /\ LET slot == req[r]
           draft == Val(slot.draft)
           completed_session == Val(slot.pending.ins_session)
           rows == SetRows(CollectSets(draft.session_data).data,
                           completed_session.id, next_set_id)
       IN IF \E i \in 1 .. Len(rows) :
                 ~ExerciseExists(rows[i].exercise_definition_id)
          THEN /\ req' = [req EXCEPT ![r] = Raise(slot, 500)]
               /\ UNCHANGED next_set_id
          ELSE /\ ~DraftRowLocked(r, draft.id)
               /\ next_set_id' = next_set_id + Len(rows)
               /\ req' = [req EXCEPT ![r] =
                      [slot EXCEPT
                          !.pc = "commit", !.status = 200,
                          !.pending.ins_sets = rows,
                          !.pending.del_draft =
                              IF DraftRowExists(draft.id) THEN Some(draft.id)
                              ELSE None,
                          !.response =
                              Some([id |-> completed_session.id,
                                    template_id |-> completed_session.template_id,
                                    started_at |-> completed_session.started_at,
                                    completed_at |-> completed_session.completed_at,
                                    session_score |-> completed_session.session_score,
                                    completed_sets |-> ReadAll(rows)])]]
    /\ UNCHANGED << workout_drafts, completed_sessions, completed_sets,
                    exercise_definitions, splits, templates,
                    template_exercises, next_draft_id, next_session_id, now,
                    converted, last_event >>

\* ----------------------------------------------------------- discard_draft
\* Lines 399-410; session.delete marks the row, the DELETE runs in the
\* flush of get_session's commit.
DiscardRead(r, u) ==
    /\ Delivered
    /\ req[r].pc = "idle"
    /\ LET draft == SelectDraft(u)
           slot == [Idle EXCEPT !.op = "discard", !.user = u, !.draft = draft]
       IN req' = [req EXCEPT ![r] =
              IF IsNone(draft) THEN Raise(slot, 404)
              ELSE [slot EXCEPT !.pc = "discard_commit"]]
    /\ UNCHANGED << workout_drafts, completed_sessions, completed_sets,
                    exercise_definitions, splits, templates,
                    template_exercises, next_draft_id, next_session_id,
                    next_set_id, now, converted, last_event >>

DiscardCommit(r) ==
    /\ Delivered
    /\ req[r].pc = "discard_commit"
    /\ LET id == Val(req[r].draft).id IN
       /\ ~DraftRowLocked(r, id)
       /\ workout_drafts' = {d \in workout_drafts : d.id # id}
    /\ last_event' = [last_event EXCEPT ![req[r].user] = "discarded"]
    /\ req' = [req EXCEPT ![r] = [@ EXCEPT !.pc = "done", !.status = 204]]
    /\ UNCHANGED << completed_sessions, completed_sets, exercise_definitions,
                    splits, templates, template_exercises, next_draft_id,
                    next_session_id, next_set_id, now, converted >>

\* ------------------------------------------------------------- get_session
\* The tables after the transaction's writes are applied.
DraftsAfter(p) ==
    LET kept == IF IsNone(p.del_draft) THEN workout_drafts
                ELSE {d \in workout_drafts : d.id # Val(p.del_draft)}
        updated == IF IsNone(p.upd_draft) THEN kept
                   ELSE {IF d.id = Val(p.upd_draft).id
                         THEN [d EXCEPT
                                 !.session_data = Val(p.upd_draft).session_data,
                                 !.updated_at = Val(p.upd_draft).updated_at]
                         ELSE d : d \in kept}
    IN IF IsNone(p.ins_draft) THEN updated
       ELSE updated \cup {Val(p.ins_draft)}

Rows(seq) == {seq[i] : i \in 1 .. Len(seq)}

\* Line 37: await session.commit() after the handler returned.
Commit(r) ==
    /\ Delivered
    /\ req[r].pc = "commit"
    /\ LET p == req[r].pending
           u == req[r].user
       IN /\ workout_drafts' = DraftsAfter(p)
          /\ completed_sessions' =
                 IF IsNone(p.ins_session) THEN completed_sessions
                 ELSE completed_sessions \cup {Val(p.ins_session)}
          /\ completed_sets' = completed_sets \cup Rows(p.ins_sets)
          /\ converted' =
                 IF IsNone(p.ins_session) THEN converted
                 ELSE converted \cup
                          {[session_id |-> Val(p.ins_session).id,
                            draft |-> Val(req[r].draft)]}
          /\ last_event' =
                 IF ~IsNone(p.ins_draft)
                 THEN [last_event EXCEPT ![u] = "started"]
                 ELSE IF req[r].op = "finish"
                 THEN [last_event EXCEPT ![u] = "finished"]
                 ELSE last_event
    /\ req' = [req EXCEPT ![r] = [@ EXCEPT !.pc = "done",
                                           !.pending = NoPending]]
    /\ UNCHANGED << exercise_definitions, splits, templates,
                    template_exercises, next_draft_id, next_session_id,
                    next_set_id, now >>

\* The response is delivered and the slot serves the next request.
Release(r) ==
    /\ req[r].pc = "done"
    /\ req' = [req EXCEPT ![r] = Idle]
    /\ UNCHANGED << workout_drafts, completed_sessions, completed_sets,
                    exercise_definitions, splits, templates,
                    template_exercises, next_draft_id, next_session_id,
                    next_set_id, now, converted, last_event >>

\* --------------------------------------------------------- update_exercise
\* Mutant: the rename carried into the entries of the drafts.
UpdateExerciseAndDrafts(r, u, exercise_id, name) ==
    /\ \A q \in Requests : req[q].pc = "idle"
    /\ LET slot == [Idle EXCEPT !.op = "update_exercise", !.user = u,
                                !.exercise_id = exercise_id]
           found == OwnedExercises(u, exercise_id)
       IN IF found = {}
          THEN /\ req' = [req EXCEPT ![r] = Raise(slot, 404)]
               /\ UNCHANGED << exercise_definitions, workout_drafts >>
          ELSE IF /\ name # (CHOOSE e \in found : TRUE).name
                  /\ \E e \in exercise_definitions :
                         e.user_id = u /\ e.name = name
          THEN /\ req' = [req EXCEPT ![r] = Raise(slot, 400)]
               /\ UNCHANGED << exercise_definitions, workout_drafts >>
          ELSE /\ req' = [req EXCEPT ![r] =
                      [slot EXCEPT !.pc = "done", !.status = 200]]
               /\ exercise_definitions' =
                      {IF e.id = exercise_id THEN [e EXCEPT !.name = name]
                       ELSE e : e \in exercise_definitions}
               /\ workout_drafts' =
                      {[d EXCEPT !.session_data =
                           [i \in 1 .. Len(d.session_data) |->
                               IF d.session_data[i].definition_id = exercise_id
                               THEN [d.session_data[i] EXCEPT !.name = name]
                               ELSE d.session_data[i]]] :
                       d \in workout_drafts}
    /\ UNCHANGED << completed_sessions, completed_sets, splits, templates,
                    template_exercises, next_draft_id, next_session_id,
                    next_set_id, now, converted, last_event >>

\* exercises.py lines 95-127 with get_session's commit, one request at a
\* time: the exercise is the user's (404), the new name is not the name of
\* another exercise of the user (400), and the row gets the name.
UpdateExercise(r, u, exercise_id, name) ==
    /\ \A q \in Requests : req[q].pc = "idle"
    /\ LET slot == [Idle EXCEPT !.op = "update_exercise", !.user = u,
                                !.exercise_id = exercise_id]
           found == OwnedExercises(u, exercise_id)
       IN IF found = {}
          THEN /\ req' = [req EXCEPT ![r] = Raise(slot, 404)]
               /\ UNCHANGED << exercise_definitions, workout_drafts >>
          ELSE IF /\ name # (CHOOSE e \in found : TRUE).name
                  /\ \E e \in exercise_definitions :
                         e.user_id = u /\ e.name = name
          THEN /\ req' = [req EXCEPT ![r] = Raise(slot, 400)]
               /\ UNCHANGED << exercise_definitions, workout_drafts >>
          ELSE /\ req' = [req EXCEPT ![r] =
                      [slot EXCEPT !.pc = "done", !.status = 200]]
               /\ exercise_definitions' =
                      {IF e.id = exercise_id THEN [e EXCEPT !.name = name]
                       ELSE e : e \in exercise_definitions}
               /\ UNCHANGED workout_drafts
    /\ UNCHANGED << completed_sessions, completed_sets, splits, templates,
                    template_exercises, next_draft_id, next_session_id,
                    next_set_id, now, converted, last_event >>

\* --------------------------------------------------------- delete_exercise
\* The flush of session.delete(exercise) un-links the rows of the
\* relationships template_exercises and completed_sets, which have no delete
\* cascade: it sets their exercise_definition_id to NULL.  The column is NOT
\* NULL in both tables, so the flush fails (IntegrityError) when a link or a
\* completed set references the exercise.
\* Mutant: the completed sets not looked at.
ReferencedByLinks(exercise_id) ==
    \E l \in template_exercises : l.exercise_definition_id = exercise_id
Referenced(exercise_id) ==
    \/ \E l \in template_exercises : l.exercise_definition_id = exercise_id
    \/ \E cs \in completed_sets : cs.exercise_definition_id = exercise_id

\* The flush runs in get_session's commit (db.py line 37), after the handler
\* returned its 204: the caller gets the error if the framework finishes the
\* dependency before it sends the response, and the 204 if it sends first.
CommitFailureStatus == {204, 500}

\* exercises.py lines 141-155 with get_session's commit.  A concurrent
\* uncommitted INSERT of a referencing completed set makes the DELETE wait.
DeleteExercise(r, u, exercise_id) ==
    /\ Delivered
    /\ req[r].pc = "idle"
    /\ LET slot == [Idle EXCEPT !.op = "delete_exercise", !.user = u,
                                !.exercise_id = exercise_id]
       IN IF OwnedExercises(u, exercise_id) = {}
          THEN /\ req' = [req EXCEPT ![r] = Raise(slot, 404)]
               /\ UNCHANGED exercise_definitions
          ELSE IF Referenced(exercise_id)
          THEN /\ \E code \in CommitFailureStatus :
                      req' = [req EXCEPT ![r] = Raise(slot, code)]
               /\ UNCHANGED exercise_definitions
          ELSE /\ \A q \in Requests :
                      \A i \in 1 .. Len(req[q].pending.ins_sets) :
                          req[q].pending.ins_sets[i].exercise_definition_id
                              # exercise_id
               /\ req' = [req EXCEPT ![r] =
                      [slot EXCEPT !.pc = "done", !.status = 204]]
               /\ exercise_definitions' =
                      {e \in exercise_definitions : e.id # exercise_id}
    /\ UNCHANGED << splits, templates, template_exercises, workout_drafts,
                    completed_sessions, completed_sets, next_draft_id,
                    next_session_id, next_set_id, now, converted,
                    last_event >>

\* ------------------------------------------- delete_template, delete_split
\* What session.delete(template) does to the tables at the flush.  The links
\* go with the template (template_exercises: cascade_delete=True).  The
\* relationships workout_drafts and completed_sessions have no delete
\* cascade, so the ORM detaches their rows: it sets template_id, which is
\* nullable, to NULL in every draft and every CompletedSession of the
\* template, and then deletes the template.
Detached(rows, template_ids) ==
    {IF ~IsNone(row.template_id) /\ Val(row.template_id) \in template_ids
     THEN [row EXCEPT !.template_id = None]
     ELSE row : row \in rows}

\* templates.py lines 168-181 with get_session's commit, one request at a
\* time.
DeleteTemplate(r, u, template_id) ==
    /\ \A q \in Requests : req[q].pc = "idle"
    /\ LET slot == [Idle EXCEPT !.op = "delete_template", !.user = u,
                                !.template_id = Some(template_id)]
       IN IF OwnedTemplates(u, template_id) = {}
          THEN /\ req' = [req EXCEPT ![r] = Raise(slot, 404)]
               /\ UNCHANGED << workout_drafts, completed_sessions, templates,
                               template_exercises >>
          ELSE /\ req' = [req EXCEPT ![r] =
                      [slot EXCEPT !.pc = "done", !.status = 204]]
               /\ template_exercises' =
                      {l \in template_exercises : l.template_id # template_id}
               /\ workout_drafts' = Detached(workout_drafts, {template_id})
               /\ completed_sessions' =
                      Detached(completed_sessions, {template_id})
               /\ templates' = {t \in templates : t.id # template_id}
    /\ UNCHANGED << completed_sets, exercise_definitions, splits,
                    next_draft_id, next_session_id, next_set_id, now,
                    converted, last_event >>

\* splits.py lines 164-175 with get_session's commit: the templates of the
\* split are deleted with it (templates: cascade_delete=True), each as
\* session.delete(template) deletes it.
DeleteSplit(r, u, split_id) ==
    /\ \A q \in Requests : req[q].pc = "idle"
    /\ LET slot == [Idle EXCEPT !.op = "delete_split", !.user = u]
           of_split == {t.id : t \in {x \in templates : x.split_id = split_id}}
       IN IF ~\E sp \in splits : sp.id = split_id /\ sp.user_id = u
          THEN /\ req' = [req EXCEPT ![r] = Raise(slot, 404)]
               /\ UNCHANGED << workout_drafts, completed_sessions, splits,
                               templates, template_exercises >>
          ELSE /\ req' = [req EXCEPT ![r] =
                      [slot EXCEPT !.pc = "done", !.status = 204]]
               /\ template_exercises' =
                      {l \in template_exercises : l.template_id \notin of_split}
               /\ workout_drafts' = Detached(workout_drafts, of_split)
               /\ completed_sessions' = Detached(completed_sessions, of_split)
               /\ templates' = {t \in templates : t.id \notin of_split}
               /\ splits' = {sp \in splits : sp.id # split_id}
    /\ UNCHANGED << completed_sets, exercise_definitions, next_draft_id,
                    next_session_id, next_set_id, now, converted, last_event >>

\* ------------------------------------------------- add_exercise_to_template
\* templates.py lines 194-234: the template is the user's (404), the
\* exercise is the user's (404), and no link of the template to the exercise
\* is committed (400).
AddLinkRead(r, u, template_id, exercise_id) ==
    /\ Delivered
    /\ req[r].pc = "idle"
    /\ LET slot == [Idle EXCEPT !.op = "add_link", !.user = u,
                                !.template_id = Some(template_id),
                                !.exercise_id = exercise_id]
       IN req' = [req EXCEPT ![r] =
              IF OwnedTemplates(u, template_id) = {} THEN Raise(slot, 404)
              ELSE IF OwnedExercises(u, exercise_id) = {}
              THEN Raise(slot, 404)
              ELSE IF \E l \in template_exercises :
                          /\ l.template_id = template_id
                          /\ l.exercise_definition_id = exercise_id
              THEN Raise(slot, 400)
              ELSE [slot EXCEPT !.pc = "link_insert"]]
    /\ UNCHANGED << workout_drafts, completed_sessions, completed_sets,
                    exercise_definitions, splits, templates,
                    template_exercises, next_draft_id, next_session_id,
                    next_set_id, now, converted, last_event >>

\* The id the sequence of template_exercises gives the next row.
NextLinkId ==
    IF template_exercises = {} THEN 1
    ELSE (CHOOSE l \in template_exercises :
              \A m \in template_exercises : m.id <= l.id).id + 1

\* templates.py lines 236-246 with get_session's commit: the INSERT of the
\* link.  The table has no unique constraint on (template_id,
\* exercise_definition_id), so the INSERT neither waits for nor fails on a
\* link of the same exercise that another transaction inserted.
AddLinkInsert(r, order) ==
    /\ Delivered
    /\ req[r].pc = "link_insert"
    /\ template_exercises' = template_exercises \cup
           { [id |-> NextLinkId, template_id |-> Val(req[r].template_id),
              exercise_definition_id |-> req[r].exercise_id,
              order |-> order] }
    /\ req' = [req EXCEPT ![r] = [@ EXCEPT !.pc = "done", !.status = 201]]
    /\ UNCHANGED << workout_drafts, completed_sessions, completed_sets,
                    exercise_definitions, splits, templates, next_draft_id,
                    next_session_id, next_set_id, now, converted,
                    last_event >>

\* ---------------------------------------------------------------- analytics
\* The orders in which SELECT ... ORDER BY may return rows, precedes being
\* the pairs << a, b >> of rows the sort key puts a before b: the next row is
\* any row that no remaining row precedes, so rows with equal sort keys come
\* in either order.
RECURSIVE ResultOrders(_, _)
ResultOrders(rows, precedes) ==
    IF rows = {} THEN { << >> }
    ELSE UNION { { << x >> \o rest :
                     rest \in ResultOrders(rows \ {x}, precedes) } :
                 x \in {y \in rows :
                           \A z \in rows : << z, y >> \notin precedes} }

\* analytics.py lines 33-40: the user's sessions, of one template if asked.
SessionsQuery(u, template_id) ==
    {s \in completed_sessions :
        /\ s.user_id = u
        /\ (IsNone(template_id) \/ s.template_id = template_id)}

\* Mutant: order_by(CompletedSession.completed_at) without .desc().
OlderFirst(a, b) == a.completed_at < b.completed_at
\* Line 42: order_by(CompletedSession.completed_at.desc()).
CompletedAtDesc(a, b) == a.completed_at > b.completed_at

\* Line 51: s.template.name if s.template else None.
TemplateName(template_id) ==
    IF IsNone(template_id)
           \/ ~\E t \in templates : t.id = Val(template_id)
    THEN None
    ELSE Some((CHOOSE t \in templates : t.id = Val(template_id)).name)

SessionAnalytics(s) ==
    [id |-> s.id, template_id |-> s.template_id,
     template_name |-> TemplateName(s.template_id),
     started_at |-> s.started_at, completed_at |-> s.completed_at,
     session_score |-> s.session_score]

\* get_sessions_analytics.
ListSessions(r, u, template_id) ==
    /\ Delivered
    /\ req[r].pc = "idle"
    /\ \E sessions \in
           ResultOrders(SessionsQuery(u, template_id),
                        {pair \in completed_sessions \X completed_sessions :
                            CompletedAtDesc(pair[1], pair[2])}) :
           req' = [req EXCEPT ![r] =
               [Idle EXCEPT !.op = "sessions", !.user = u,
                            !.template_id = template_id, !.pc = "done",
                            !.status = 200,
                            !.response =
                                Some([i \in 1 .. Len(sessions) |->
                                         SessionAnalytics(sessions[i])])]]
    /\ UNCHANGED << workout_drafts, completed_sessions, completed_sets,
                    exercise_definitions, splits, templates,
                    template_exercises, next_draft_id, next_session_id,
                    next_set_id, now, converted, last_event >>

\* Lines 88-94 and 162-167: the CompletedSets of an exercise,
\* select(CompletedSet).where(CompletedSet.exercise_definition_id == exercise_id),
\* which get_exercise_history and get_exercise_summary aggregate.
ExerciseSets(exercise_id) ==
    {cs \in completed_sets : cs.exercise_definition_id = exercise_id}

\* selectinload(CompletedSet.session): the session a set belongs to.
SessionOfSet(cs) == CHOOSE cse \in completed_sessions : cse.id = cs.session_id

\* Mutant: the sets in the order of their ids.
SetIdOrder(a, b) == a.id < b.id
\* Line 92: order_by(CompletedSet.session_id, CompletedSet.set_number).
SessionThenSetNumber(a, b) ==
    \/ a.session_id < b.session_id
    \/ (a.session_id = b.session_id /\ a.set_number < b.set_number)

SetAnalytics(s) ==
    [set_number |-> s.set_number, reps |-> s.reps, weight |-> s.weight,
     epley_score |-> s.epley_score]

\* Mutant: sessions_map[session_id]["total_score"] = s.epley_score.
RECURSIVE GroupBySessionLastScore(_, _)
GroupBySessionLastScore(sets, sessions_map) ==
    IF sets = << >> THEN sessions_map
    ELSE LET s == Head(sets)
             known == \E k \in 1 .. Len(sessions_map) :
                          sessions_map[k].session_id = s.session_id
             entries ==
                 IF known THEN sessions_map
                 ELSE Append(sessions_map,
                             [session_id |-> s.session_id,
                              date |-> SessionOfSet(s).completed_at,
                              total_score |-> 0, sets |-> << >>])
             added ==
                 [k \in 1 .. Len(entries) |->
                     IF entries[k].session_id = s.session_id
                     THEN [entries[k] EXCEPT
                              !.total_score = s.epley_score,
                              !.sets = Append(@, SetAnalytics(s))]
                     ELSE entries[k]]
         IN GroupBySessionLastScore(Tail(sets), added)

\* Lines 97-116: sessions_map, a dict, which keeps its keys in the order of
\* their first insertion.
RECURSIVE GroupBySession(_, _)
GroupBySession(sets, sessions_map) ==
    IF sets = << >> THEN sessions_map
    ELSE LET s == Head(sets)
             known == \E k \in 1 .. Len(sessions_map) :
                          sessions_map[k].session_id = s.session_id
             entries ==
                 IF known THEN sessions_map
                 ELSE Append(sessions_map,
                             [session_id |-> s.session_id,
                              date |-> SessionOfSet(s).completed_at,
                              total_score |-> 0, sets |-> << >>])
             added ==
                 [k \in 1 .. Len(entries) |->
                     IF entries[k].session_id = s.session_id
                     THEN [entries[k] EXCEPT
                              !.total_score = @ + s.epley_score,
                              !.sets = Append(@, SetAnalytics(s))]
                     ELSE entries[k]]
         IN GroupBySession(Tail(sets), added)

\* Lines 119-130: sorted(..., key=lambda x: x.date), a stable sort.
RECURSIVE SortedByDate(_)
SortedByDate(entries) ==
    IF entries = << >> THEN << >>
    ELSE LET k == CHOOSE i \in 1 .. Len(entries) :
                      /\ \A j \in 1 .. Len(entries) :
                             entries[i].date <= entries[j].date
                      /\ \A j \in 1 .. (i - 1) :
                             entries[j].date > entries[i].date
         IN << entries[k] >>
            \o SortedByDate(SubSeq(entries, 1, k - 1)
                            \o SubSeq(entries, k + 1, Len(entries)))

\* get_exercise_history.
ExerciseHistory(r, u, exercise_id) ==
    /\ Delivered
    /\ req[r].pc = "idle"
    /\ LET slot == [Idle EXCEPT !.op = "history", !.user = u,
                                !.exercise_id = exercise_id]
       IN IF OwnedExercises(u, exercise_id) = {}
          THEN req' = [req EXCEPT ![r] = Raise(slot, 404)]
          ELSE \E sets \in
                   ResultOrders(ExerciseSets(exercise_id),
                                {pair \in completed_sets \X completed_sets :
                                    SessionThenSetNumber(pair[1], pair[2])}) :
                   req' = [req EXCEPT ![r] =
                       [slot EXCEPT
                           !.pc = "done", !.status = 200,
                           !.response =
                               Some(SortedByDate(
                                        GroupBySession(sets, << >>)))]]
    /\ UNCHANGED << workout_drafts, completed_sessions, completed_sets,
                    exercise_definitions, splits, templates,
                    template_exercises, next_draft_id, next_session_id,
                    next_set_id, now, converted, last_event >>

\* A quotient of two numbers, kept as the pair: num / den.
Ratio(num, den) == [num |-> num, den |-> den]

\* The sum of value[x] over the rows x.
RECURSIVE SumOver(_, _)
SumOver(rows, value) ==
    IF rows = {} THEN 0
    ELSE LET x == CHOOSE y \in rows : TRUE
         IN value[x] + SumOver(rows \ {x}, value)

\* Mutant: the summary of an exercise without sets dated at the epoch.
EmptySummaryAtEpoch(exercise) ==
    Some([exercise_id |-> exercise.id, exercise_name |-> exercise.name,
          total_sessions |-> 0, total_sets |-> 0, total_volume |-> 0,
          best_set_weight |-> 0, best_set_reps |-> 0,
          best_set_epley_score |-> 0,
          average_session_score |-> [num |-> 0, den |-> 1],
          last_performed |-> Some(0)])

\* Lines 170-182: the summary of an exercise without sets.
EmptySummary(exercise) ==
    Some([exercise_id |-> exercise.id, exercise_name |-> exercise.name,
          total_sessions |-> 0, total_sets |-> 0, total_volume |-> 0,
          best_set_weight |-> 0, best_set_reps |-> 0,
          best_set_epley_score |-> 0,
          average_session_score |-> Ratio(0, 1),
          last_performed |-> None])

\* Lines 162-167: the SELECT has no ORDER BY, so the rows come in an order
\* the database chooses.  The orders of the model: any row first, the others
\* after it by id; every row is the first one encountered in some order.
ScanOrders(rows) ==
    UNION { { << x >> \o rest :
                rest \in ResultOrders(rows \ {x},
                                      {pair \in rows \X rows :
                                          pair[1].id < pair[2].id}) } :
            x \in rows }

\* Mutant: if s.epley_score >= best_set.epley_score.
IsBetterOrEqual(s, best_set) == s.epley_score >= best_set.epley_score
\* Line 199: if s.epley_score > best_set.epley_score.
IsBetter(s, best_set) == s.epley_score > best_set.epley_score

\* Mutant: session_scores[s.session_id] = s.epley_score.
SetSessionScore(session_scores, s) ==
    IF s.session_id \in DOMAIN session_scores
    THEN [session_scores EXCEPT ![s.session_id] = s.epley_score]
    ELSE session_scores @@ (s.session_id :> s.epley_score)
\* Lines 207-209: session_scores[s.session_id] += s.epley_score, from 0.0.
AddSessionScore(session_scores, s) ==
    IF s.session_id \in DOMAIN session_scores
    THEN [session_scores EXCEPT ![s.session_id] = @ + s.epley_score]
    ELSE session_scores @@ (s.session_id :> s.epley_score)

\* Lines 194-209: the loop over the sets, from the set i on.
RECURSIVE SummaryLoop(_, _, _)
SummaryLoop(sets, i, acc) ==
    IF i > Len(sets) THEN acc
    ELSE LET s == sets[i]
             completed_at == SessionOfSet(s).completed_at
         IN SummaryLoop(sets, i + 1,
                [session_ids |-> acc.session_ids \cup {s.session_id},
                 total_volume |-> acc.total_volume + s.weight * s.reps,
                 best_set |-> IF IsBetter(s, acc.best_set) THEN s
                              ELSE acc.best_set,
                 last_performed |->
                     IF completed_at > acc.last_performed THEN completed_at
                     ELSE acc.last_performed,
                 session_scores |-> AddSessionScore(acc.session_scores, s)])

\* Lines 184-225: the statistics of the sets in the order the SELECT
\* returned them.
SummaryOf(exercise, sets) ==
    LET done == SummaryLoop(sets, 1,
                    [session_ids |-> {}, total_volume |-> 0,
                     best_set |-> sets[1],
                     last_performed |-> SessionOfSet(sets[1]).completed_at,
                     session_scores |-> << >>])
        total_sessions == Cardinality(done.session_ids)
    IN Some([exercise_id |-> exercise.id, exercise_name |-> exercise.name,
             total_sessions |-> total_sessions,
             total_sets |-> Len(sets),
             total_volume |-> done.total_volume,
             best_set_weight |-> done.best_set.weight,
             best_set_reps |-> done.best_set.reps,
             best_set_epley_score |-> done.best_set.epley_score,
             average_session_score |->
                 IF total_sessions > 0
                 THEN Ratio(SumOver(DOMAIN done.session_scores,
                                    done.session_scores),
                            total_sessions)
                 ELSE Ratio(0, 1),
             last_performed |-> Some(done.last_performed)])

\* get_exercise_summary.
ExerciseSummary(r, u, exercise_id) ==
    /\ Delivered
    /\ req[r].pc = "idle"
    /\ LET slot == [Idle EXCEPT !.op = "summary", !.user = u,
                                !.exercise_id = exercise_id]
           found == OwnedExercises(u, exercise_id)
           sets == ExerciseSets(exercise_id)
       IN IF found = {}
          THEN req' = [req EXCEPT ![r] = Raise(slot, 404)]
          ELSE LET exercise == CHOOSE e \in found : TRUE IN
               IF sets = {}
               THEN req' = [req EXCEPT ![r] =
                        [slot EXCEPT !.pc = "done", !.status = 200,
                                     !.response = EmptySummary(exercise)]]
               ELSE \E rows \in ScanOrders(sets) :
                        req' = [req EXCEPT ![r] =
                            [slot EXCEPT
                                !.pc = "done", !.status = 200,
                                !.rows = rows,
                                !.response = SummaryOf(exercise, rows)]]
    /\ UNCHANGED << workout_drafts, completed_sessions, completed_sets,
                    exercise_definitions, splits, templates,
                    template_exercises, next_draft_id, next_session_id,
                    next_set_id, now, converted, last_event >>

\* -------------------------------------------------------------------- clock
\* Time passes between two steps of the server: datetime.utcnow() returns a
\* later instant.
Tick ==
    /\ Delivered
    /\ now < MaxTime
    /\ now' = now + 1
    /\ UNCHANGED << workout_drafts, completed_sessions, completed_sets,
                    exercise_definitions, splits, templates,
                    template_exercises, next_draft_id, next_session_id,
                    next_set_id, req, converted, last_event >>

\* ----------------------------------------------------------- specification
\* Spec: the handlers of two concurrent requests interleave at their awaits.
\* The requests are Start, Get, Replace, Finish and Discard of either user;
\* a Replace carries the payload with one valid and two invalid sets.
ConcurrentPayloads ==
    {p \in Payloads : Len(p) = 1 /\ Len(p[1].sets) = 3}

Next ==
    \/ \E r \in Requests, u \in Users : StartRead(r, u, None)
    \/ \E r \in Requests : StartInsert(r)
    \/ \E r \in Requests, u \in Users : GetDraft(r, u)
    \/ \E r \in Requests, u \in Users, p \in ConcurrentPayloads :
           UpdateRead(r, u, p)
    \/ \E r \in Requests : UpdateFlush(r)
    \/ \E r \in Requests, u \in Users : FinishRead(r, u)
    \/ \E r \in Requests : FinishSession(r)
    \/ \E r \in Requests : FinishSets(r)
    \/ \E r \in Requests, u \in Users : DiscardRead(r, u)
    \/ \E r \in Requests : DiscardCommit(r)
    \/ \E r \in Requests : Commit(r)
    \/ \E r \in Requests : Release(r)

Spec == Init /\ [][Next]_vars

\* SpecSeq: one request at a time, with every payload of the model, ad-hoc
\* exercises and the deletion of an exercise between the requests.
SeqTemplates == {None, Some(9)}
SeqExercises == {2, 9}

NextSeq ==
    \/ \E u \in Users, t \in SeqTemplates : StartRead(1, u, t)
    \/ StartInsert(1)
    \/ \E u \in Users : GetDraft(1, u)
    \/ \E u \in Users, p \in Payloads : UpdateRead(1, u, p)
    \/ UpdateFlush(1)
    \/ \E u \in Users, e \in SeqExercises : AddRead(1, u, e)
    \/ AddFlush(1)
    \/ \E u \in Users : FinishRead(1, u)
    \/ FinishSession(1)
    \/ FinishSets(1)
    \/ \E u \in Users : DiscardRead(1, u)
    \/ DiscardCommit(1)
    \/ Commit(1)
    \/ Release(1)
    \/ \E u \in Users : DeleteExercise(1, u, 2)

SpecSeq == Init /\ [][NextSeq]_vars

\* SpecClock: the draft store while the clock advances, one request at a
\* time: Start with and without a template, Replace, AddExercise, Discard.
\* The payloads: an exercise entered twice, its three sets valid and two of
\* them of the same score with different weights; and an exercise of user 2
\* with a set without reps.
ClockPayloads ==
    { << ExerciseData(1, "squat",
                      << SetData(Some(1), Some(2), TRUE),
                         SetData(Some(32), Some(1), TRUE) >>, TRUE),
         ExerciseData(1, "squat",
                      << SetData(Some(3), Some(1), TRUE) >>, FALSE) >>,
      << ExerciseData(3, "row",
                      << SetData(None, Some(4), TRUE),
                         SetData(Some(3), Some(2), FALSE) >>, FALSE) >> }
ClockTemplates == {None, Some(1)}
ClockExercises == {1, 3}

NextClock ==
    \/ Tick
    \/ \E u \in Users, t \in ClockTemplates : StartRead(1, u, t)
    \/ StartInsert(1)
    \/ \E u \in Users : GetDraft(1, u)
    \/ \E u \in Users, p \in ClockPayloads : UpdateRead(1, u, p)
    \/ UpdateFlush(1)
    \/ \E u \in Users, e \in ClockExercises : AddRead(1, u, e)
    \/ AddFlush(1)
    \/ \E u \in Users : DiscardRead(1, u)
    \/ DiscardCommit(1)
    \/ Commit(1)
    \/ Release(1)

SpecClock == Init /\ [][NextClock]_vars

\* SpecAnalytics: the history and its analytics while the clock advances, one
\* request at a time: Start with and without a template, Replace with the
\* payload of three valid sets, Finish and the three analytics requests of
\* either user.
AnalyticsPayloads == {p \in ClockPayloads : Len(p) = 2}

NextAnalytics ==
    \/ Tick
    \/ \E u \in Users, t \in ClockTemplates : StartRead(1, u, t)
    \/ StartInsert(1)
    \/ \E u \in Users, p \in AnalyticsPayloads : UpdateRead(1, u, p)
    \/ UpdateFlush(1)
    \/ \E u \in Users : FinishRead(1, u)
    \/ FinishSession(1)
    \/ FinishSets(1)
    \/ Commit(1)
    \/ Release(1)
    \/ \E u \in Users, t \in ClockTemplates : ListSessions(1, u, t)
    \/ \E u \in Users, e \in ClockExercises : ExerciseHistory(1, u, e)
    \/ \E u \in Users, e \in ClockExercises : ExerciseSummary(1, u, e)

SpecAnalytics == Init /\ [][NextAnalytics]_vars

\* SpecCatalog: the catalogue changes between the requests of the workout
\* lifecycle, one request at a time: Start without a template, from template
\* 1 and from a template that does not exist, AddExercise of exercise 2,
\* Get, Finish, ListSessions, the deletion of template 1 and of split 1, and
\* the renaming of exercises 2 and 5 to a new name and to the first name of
\* exercise 2, by either user.
CatalogTemplates == {None, Some(1), Some(9)}
CatalogExercises == {2, 5}
CatalogNames == {"lunge", "bench"}

NextCatalog ==
    \/ \E u \in Users, t \in CatalogTemplates : StartRead(1, u, t)
    \/ StartInsert(1)
    \/ \E u \in Users : GetDraft(1, u)
    \/ \E u \in Users : FinishRead(1, u)
    \/ FinishSession(1)
    \/ FinishSets(1)
    \/ Commit(1)
    \/ Release(1)
    \/ \E u \in Users, t \in CatalogTemplates : ListSessions(1, u, t)
    \/ \E u \in Users : DeleteTemplate(1, u, 1)
    \/ \E u \in Users : DeleteSplit(1, u, 1)
    \/ \E u \in Users : AddRead(1, u, 2)
    \/ AddFlush(1)
    \/ \E u \in Users, e \in CatalogExercises, name \in CatalogNames :
           UpdateExercise(1, u, e, name)

SpecCatalog == Init /\ [][NextCatalog]_vars

\* SpecMutations: the handlers of two concurrent requests of user 1 that
\* mutate the draft interleave at their awaits: Start, AddExercise of
\* exercises 1 and 2, and Replace with the payload of Spec.
MutationExercises == {1, 2}

NextMutations ==
    \/ \E r \in Requests : StartRead(r, 1, None)
    \/ \E r \in Requests : StartInsert(r)
    \/ \E r \in Requests, e \in MutationExercises : AddRead(r, 1, e)
    \/ \E r \in Requests : AddFlush(r)
    \/ \E r \in Requests, p \in ConcurrentPayloads : UpdateRead(r, 1, p)
    \/ \E r \in Requests : UpdateFlush(r)
    \/ \E r \in Requests : Commit(r)
    \/ \E r \in Requests : Release(r)

SpecMutations == Init /\ [][NextMutations]_vars

\* SpecLinks: the handlers of two concurrent requests of user 1 interleave
\* at their awaits: the adding of exercise 2 to template 1, Start from
\* template 1, and AddExercise of exercise 2.  No request replaces a draft.
LinkOrder == 3

NextLinks ==
    \/ \E r \in Requests : AddLinkRead(r, 1, 1, 2)
    \/ \E r \in Requests : AddLinkInsert(r, LinkOrder)
    \/ \E r \in Requests : StartRead(r, 1, Some(1))
    \/ \E r \in Requests : StartInsert(r)
    \/ \E r \in Requests : AddRead(r, 1, 2)
    \/ \E r \in Requests : AddFlush(r)
    \/ \E r \in Requests : Commit(r)
    \/ \E r \in Requests : Release(r)

SpecLinks == Init /\ [][NextLinks]_vars

\* ------------------------------------------------------------------ claims
\* The sets a CompletedSession owns, and the session that owns a set.
SetsOfSession(session_id) ==
    {cs \in completed_sets : cs.session_id = session_id}
FinishedBy(r) == req[r].op = "finish" /\ req[r].pc = "done"

\* C1: in every committed state, whatever the interleaving of the requests,
\* no user has more than one WorkoutDraft row.
C1_OneDraftPerUser ==
    \A u \in Users : Cardinality(DraftsOf(u)) <= 1

\* C1's case: two Starts of one user raced, one draft is committed and the
\* second INSERT was rejected.
C1_Witness ==
    \E r \in Requests :
        /\ req[r].op = "start" /\ req[r].pc = "done" /\ req[r].status = 500
        /\ Cardinality(DraftsOf(req[r].user)) = 1

\* C2: a Start never ends in an error, concurrent Starts of one user
\* included: it answers 201 with the draft the user has.
C2_ConcurrentStartsSucceed ==
    \A r \in Requests :
        (req[r].op = "start" /\ req[r].pc = "done") =>
            /\ req[r].status = 201
            /\ \E d \in DraftsOf(req[r].user) :
                   req[r].response = Some(WorkoutDraftRead(d))

\* C3: no draft is converted twice: two committed CompletedSessions never
\* come from the same draft row.
C3_DraftConvertedAtMostOnce ==
    \A a \in converted, b \in converted :
        a.draft.id = b.draft.id => a.session_id = b.session_id

\* C4: when the last committed change of a user's draft slot is a successful
\* Finish (no Start after it), the user has no draft, so that Get and Finish
\* answer 404.
C4_NoDraftAfterFinish ==
    \A u \in Users : last_event[u] = "finished" => DraftsOf(u) = {}

\* What the spec calls the valid sets of a draft: the entries with reps and
\* weight both present and strictly positive, as << definition_id, reps,
\* weight >> in the order of the draft.
RECURSIVE ValidOfEntry(_, _)
ValidOfEntry(definition_id, sets) ==
    IF sets = << >> THEN << >>
    ELSE LET sd == Head(sets)
             rest == ValidOfEntry(definition_id, Tail(sets))
         IN IF sd.reps # None /\ sd.weight # None
                /\ sd.reps[1] > 0 /\ sd.weight[1] > 0
            THEN << << definition_id, sd.reps[1], sd.weight[1] >> >> \o rest
            ELSE rest
RECURSIVE ValidOfDraft(_)
ValidOfDraft(session_data) ==
    IF session_data = << >> THEN << >>
    ELSE ValidOfEntry(Head(session_data).definition_id, Head(session_data).sets)
         \o ValidOfDraft(Tail(session_data))

\* The committed sets of a session in the order of their ids.
RECURSIVE InIdOrder(_)
InIdOrder(rows) ==
    IF rows = {} THEN << >>
    ELSE LET first == CHOOSE x \in rows : \A y \in rows : x.id <= y.id
         IN << first >> \o InIdOrder(rows \ {first})

RECURSIVE SumOfScores(_)
SumOfScores(rows) ==
    IF rows = {} THEN 0
    ELSE LET x == CHOOSE y \in rows : TRUE
         IN x.epley_score + SumOfScores(rows \ {x})

\* C5: Finish is atomic.  In every committed state a CompletedSession comes
\* with all the CompletedSet rows of its Finish (one per valid set of the
\* draft that Finish read), and the draft it was created from is gone.
C5_FinishAtomic ==
    \A cse \in completed_sessions :
        \E c \in converted :
            /\ c.session_id = cse.id
            /\ ~DraftRowExists(c.draft.id)
            /\ Cardinality(SetsOfSession(cse.id))
                   = Len(ValidOfDraft(c.draft.session_data))

\* C5's case: a Finish has flushed its session, its sets and the DELETE and
\* has not committed; the draft is still the committed one.
C5_Witness ==
    \E r \in Requests :
        /\ req[r].op = "finish" /\ req[r].pc = "commit"
        /\ Len(req[r].pending.ins_sets) > 0
        /\ DraftRowExists(Val(req[r].draft).id)
        /\ Val(req[r].pending.ins_session) \notin completed_sessions

\* C6: a Finish answers 200, or 404 when the user has no draft, and nothing
\* else.
C6_FinishFailsOnlyNotFound ==
    \A r \in Requests : FinishedBy(r) => req[r].status \in {200, 404}

\* C7: the CompletedSets the analytics of an exercise are computed from all
\* belong to sessions of the exercise's owner.
C7_AnalyticsOwnSessionsOnly ==
    \A e \in exercise_definitions :
        \A cs \in ExerciseSets(e.id) : SessionOfSet(cs).user_id = e.user_id

\* C8: every CompletedSession's session_score is the sum of the epley_score
\* of its CompletedSets (0 without sets).
C8_ScoreIsSumOfSets ==
    \A cse \in completed_sessions :
        cse.session_score = SumOfScores(SetsOfSession(cse.id))

\* C8's case: a committed session with two sets, beside another session.
C8_Witness ==
    \E cse \in completed_sessions :
        /\ Cardinality(SetsOfSession(cse.id)) >= 2
        /\ Cardinality(completed_sessions) >= 2

\* C9: the CompletedSets of a Finish are, in order, exactly the valid sets of
\* the draft it read (reps and weight present and positive), each with the
\* entry's definition_id, reps and weight; no other entry leaves a record.
C9_ExactlyTheValidSets ==
    \A c \in converted :
        LET rows == InIdOrder(SetsOfSession(c.session_id))
        IN /\ [i \in 1 .. Len(rows) |->
                  << rows[i].exercise_definition_id, rows[i].reps,
                     rows[i].weight >>]
                  = ValidOfDraft(c.draft.session_data)
           /\ \A i \in 1 .. Len(rows) : rows[i].reps > 0 /\ rows[i].weight > 0

\* C9's case: a committed Finish of a draft with a valid set, a set of
\* weight 0 and a set of reps 0.
C9_Witness ==
    \E c \in converted :
        /\ Len(ValidOfDraft(c.draft.session_data)) = 1
        /\ \E i \in 1 .. Len(c.draft.session_data) :
               \E k \in 1 .. Len(c.draft.session_data[i].sets) :
                   c.draft.session_data[i].sets[k].weight = Some(0)
        /\ Cardinality(SetsOfSession(c.session_id)) = 1

\* C10: within a CompletedSession the set_number values of one exercise
\* definition's CompletedSets are 1..k, none repeated.
C10_DenseNumbersPerDefinition ==
    \A cse \in completed_sessions :
        \A e \in {cs.exercise_definition_id : cs \in SetsOfSession(cse.id)} :
            LET of_e == {cs \in SetsOfSession(cse.id) :
                            cs.exercise_definition_id = e}
            IN /\ {cs.set_number : cs \in of_e} = 1 .. Cardinality(of_e)
               /\ \A a \in of_e, b \in of_e :
                      a.set_number = b.set_number => a = b

\* C11: every CompletedSet's epley_score is weight * (1 + reps / 30) of the
\* reps and weight of the same row (times 30: weight * (30 + reps)), in every
\* reachable state.
C11_EpleyScoreOfRow ==
    \A cs \in completed_sets : cs.epley_score = cs.weight * (30 + cs.reps)

\* C11's case: the set of 5 reps of 10 is recorded with 11.666..., beside the
\* sets of a later Finish.
C11_Witness ==
    /\ \E cs \in completed_sets :
           cs.reps = 5 /\ cs.weight = 10 /\ cs.epley_score = 350
    /\ Cardinality(completed_sessions) = 2

\* C12: a Finish of a draft without a valid set answers 200 with a
\* CompletedSession of score 0 and no sets; the session is committed without
\* CompletedSets, and the draft is deleted.
C12_EmptyFinishRecorded ==
    \A r \in Requests :
        (/\ FinishedBy(r)
         /\ ~IsNone(req[r].draft)
         /\ ValidOfDraft(Val(req[r].draft).session_data) = << >>)
        => /\ req[r].status = 200
           /\ ~IsNone(req[r].response)
           /\ Val(req[r].response).session_score = 0
           /\ Val(req[r].response).completed_sets = << >>
           /\ \E cse \in completed_sessions :
                  /\ cse.id = Val(req[r].response).id
                  /\ cse.user_id = req[r].user
                  /\ cse.session_score = 0
                  /\ SetsOfSession(cse.id) = {}
           /\ ~DraftRowExists(Val(req[r].draft).id)

\* C12's case: the finished draft had an exercise with sets, none valid.
C12_Witness ==
    \E r \in Requests :
        /\ FinishedBy(r)
        /\ req[r].status = 200
        /\ ~IsNone(req[r].draft)
        /\ ValidOfDraft(Val(req[r].draft).session_data) = << >>
        /\ \E i \in 1 .. Len(Val(req[r].draft).session_data) :
               Len(Val(req[r].draft).session_data[i].sets) = 2

\* C13: a Start by a user who has a draft answers 201 with that draft (id,
\* template_id, session_data, started_at, updated_at) and leaves the stored
\* drafts as they are, at every call.
C13_StartIsIdempotent ==
    [][\A r \in Requests :
          (/\ req[r].pc = "idle"
           /\ req'[r].op = "start"
           /\ DraftsOf(req'[r].user) # {})
          => /\ req'[r].pc = "done"
             /\ req'[r].status = 201
             /\ \E d \in DraftsOf(req'[r].user) :
                    req'[r].response = Some(WorkoutDraftRead(d))
             /\ workout_drafts' = workout_drafts]_vars

\* C13's case: a Start returned the draft the user had, which has exercises
\* and was last changed before now.
C13_Witness ==
    \E r \in Requests :
        /\ req[r].op = "start" /\ req[r].pc = "done"
        /\ ~IsNone(req[r].draft)
        /\ Val(req[r].draft).session_data # << >>
        /\ Val(req[r].draft).updated_at < now
        /\ Val(req[r].draft) \in workout_drafts

\* An AddExercise has ended whose exercise was an entry of the draft.
AddedPresent(r) ==
    /\ req[r].op = "add" /\ req[r].pc = "done"
    /\ ~IsNone(req[r].draft)
    /\ \E i \in 1 .. Len(Val(req[r].draft).session_data) :
           Val(req[r].draft).session_data[i].definition_id = req[r].exercise_id

\* C14 as stated: an AddExercise of an exercise_definition_id that is in the
\* draft fails with Conflict (400) and leaves the draft as it was.
C14_DuplicateAddConflicts ==
    \A r \in Requests :
        AddedPresent(r) =>
            /\ req[r].status = 400
            /\ Val(req[r].draft) \in workout_drafts

\* C14 amended: an AddExercise of an exercise_definition_id that is in the
\* draft fails and leaves the draft as it was (same entries, same
\* updated_at): with Conflict (400) when the caller owns the exercise, with
\* NotFound (404) when the exercise is not the caller's or does not exist.
C14_DuplicateAddFails ==
    \A r \in Requests :
        AddedPresent(r) =>
            /\ req[r].status =
                   IF \E e \in exercise_definitions :
                          e.id = req[r].exercise_id /\ e.user_id = req[r].user
                   THEN 400 ELSE 404
            /\ Val(req[r].draft) \in workout_drafts

\* C14's case: the second AddExercise of an own exercise answered Conflict,
\* later than the draft's last change.
C14_Witness ==
    \E r \in Requests :
        /\ AddedPresent(r)
        /\ req[r].status = 400
        /\ Val(req[r].draft).updated_at < now
        /\ Len(Val(req[r].draft).session_data) = 1

\* A Start has created a draft: the user had none.
StartedFresh(r) ==
    /\ req[r].op = "start" /\ req[r].pc = "done"
    /\ IsNone(req[r].draft)
    /\ (IsNone(req[r].template_id)
          \/ \E t \in InitTemplates, sp \in InitSplits :
                 /\ t.id = Val(req[r].template_id)
                 /\ sp.id = t.split_id /\ sp.user_id = req[r].user)

\* C15: a Start without an existing draft from an owned template yields a
\* draft with one entry per link of the template, in ascending order of the
\* links' order, each with exactly one empty set (reps null, weight null,
\* completed false) and is_done false; without a template the exercise list
\* is empty.  The draft is the one committed.
C15_TemplateCopiedInOrder ==
    \A r \in Requests :
        StartedFresh(r) =>
            /\ req[r].status = 201
            /\ ~IsNone(req[r].response)
            /\ LET data == Val(req[r].response).session_data
                   links == IF IsNone(req[r].template_id) THEN {}
                            ELSE {l \in InitTemplateExercises :
                                     l.template_id = Val(req[r].template_id)}
               IN /\ Len(data) = Cardinality(links)
                  /\ \A i \in 1 .. Len(data) :
                         /\ \E l \in links :
                                /\ l.exercise_definition_id = data[i].definition_id
                                /\ Cardinality({m \in links : m.order < l.order})
                                       = i - 1
                         /\ data[i].sets =
                                << [reps |-> << >>, weight |-> << >>,
                                    completed |-> FALSE] >>
                         /\ data[i].is_done = FALSE
                  /\ \E d \in DraftsOf(req[r].user) :
                         /\ d.id = Val(req[r].response).id
                         /\ d.session_data = data
                         /\ d.template_id = req[r].template_id

\* C15's case: the draft of the template of three exercises, whose links'
\* order is not the order of their ids.
C15_Witness ==
    \E r \in Requests :
        /\ StartedFresh(r)
        /\ req[r].template_id = Some(1)
        /\ Len(Val(req[r].response).session_data) = 3
        /\ Val(req[r].response).session_data[1].definition_id = 5
        /\ Val(req[r].response).session_data[3].definition_id = 1

\* C16: ListSessions answers with exactly the caller's CompletedSessions, of
\* the given template only when a template_id is supplied, each once and with
\* its own fields, newest first by completed_at.
C16_SessionsNewestFirst ==
    \A r \in Requests :
        (req[r].op = "sessions" /\ req[r].pc = "done") =>
            /\ req[r].status = 200
            /\ LET list == Val(req[r].response)
                   wanted == {s \in completed_sessions :
                                 /\ s.user_id = req[r].user
                                 /\ (req[r].template_id = << >>
                                       \/ s.template_id = req[r].template_id)}
               IN /\ Len(list) = Cardinality(wanted)
                  /\ {list[i].id : i \in 1 .. Len(list)}
                         = {s.id : s \in wanted}
                  /\ \A i \in 1 .. Len(list) :
                         \E s \in wanted :
                             /\ s.id = list[i].id
                             /\ s.completed_at = list[i].completed_at
                             /\ s.started_at = list[i].started_at
                             /\ s.session_score = list[i].session_score
                             /\ s.template_id = list[i].template_id
                  /\ \A i \in 1 .. Len(list), j \in 1 .. Len(list) :
                         i < j => list[i].completed_at >= list[j].completed_at

\* C16's case: a list of two sessions completed at different instants.
C16_Witness ==
    \E r \in Requests :
        /\ req[r].op = "sessions" /\ req[r].pc = "done"
        /\ Len(Val(req[r].response)) = 2
        /\ Val(req[r].response)[1].completed_at
               > Val(req[r].response)[2].completed_at

\* An analytics request of an exercise the caller owns has ended.
AskedOwn(r, op) ==
    /\ req[r].op = op /\ req[r].pc = "done"
    /\ \E e \in exercise_definitions :
           e.id = req[r].exercise_id /\ e.user_id = req[r].user

\* C17: ExerciseHistory of an owned exercise answers with one entry per
\* session that has CompletedSets of the exercise, oldest first by the
\* session's completed_at; an entry's total_score is the sum of the scores of
\* the exercise's sets in that session, and its sets are those sets in
\* ascending set_number.
C17_HistoryOldestFirst ==
    \A r \in Requests :
        AskedOwn(r, "history") =>
            /\ req[r].status = 200
            /\ LET list == Val(req[r].response)
                   of_e == {cs \in completed_sets :
                               cs.exercise_definition_id = req[r].exercise_id}
                   In(session_id) == {cs \in of_e : cs.session_id = session_id}
               IN /\ Len(list) = Cardinality({cs.session_id : cs \in of_e})
                  /\ {list[i].session_id : i \in 1 .. Len(list)}
                         = {cs.session_id : cs \in of_e}
                  /\ \A i \in 1 .. Len(list) :
                         /\ \E cse \in completed_sessions :
                                /\ cse.id = list[i].session_id
                                /\ cse.completed_at = list[i].date
                         /\ list[i].total_score
                                = SumOfScores(In(list[i].session_id))
                         /\ Len(list[i].sets)
                                = Cardinality(In(list[i].session_id))
                         /\ \A cs \in In(list[i].session_id) :
                                \E k \in 1 .. Len(list[i].sets) :
                                    list[i].sets[k] =
                                        [set_number |-> cs.set_number,
                                         reps |-> cs.reps, weight |-> cs.weight,
                                         epley_score |-> cs.epley_score]
                         /\ \A k \in 1 .. Len(list[i].sets),
                                  m \in 1 .. Len(list[i].sets) :
                                k < m => list[i].sets[k].set_number
                                             <= list[i].sets[m].set_number
                  /\ \A i \in 1 .. Len(list), j \in 1 .. Len(list) :
                         i < j => list[i].date <= list[j].date

\* C17's case: a history of two sessions completed at different instants,
\* the first with three sets whose set_numbers do not ascend with their ids.
C17_Witness ==
    \E r \in Requests :
        /\ AskedOwn(r, "history")
        /\ Len(Val(req[r].response)) = 2
        /\ Val(req[r].response)[1].date < Val(req[r].response)[2].date
        /\ Len(Val(req[r].response)[1].sets) = 3
        /\ \E a \in completed_sets, b \in completed_sets :
               /\ a.session_id = b.session_id
               /\ a.id < b.id /\ a.set_number > b.set_number

\* C18: ExerciseSummary of an owned exercise without CompletedSets answers
\* 200 with total_sessions 0, total_sets 0, total_volume 0.0 and
\* last_performed None.
C18_EmptySummary ==
    \A r \in Requests :
        (/\ AskedOwn(r, "summary")
         /\ ~\E cs \in completed_sets :
                cs.exercise_definition_id = req[r].exercise_id)
        => /\ req[r].status = 200
           /\ ~IsNone(req[r].response)
           /\ Val(req[r].response).exercise_id = req[r].exercise_id
           /\ Val(req[r].response).total_sessions = 0
           /\ Val(req[r].response).total_sets = 0
           /\ Val(req[r].response).total_volume = 0
           /\ Val(req[r].response).last_performed = << >>

\* C18's case: the summary of an exercise without sets, asked when sets of
\* another exercise are recorded.
C18_Witness ==
    \E r \in Requests :
        /\ AskedOwn(r, "summary")
        /\ completed_sets # {}
        /\ ~\E cs \in completed_sets :
               cs.exercise_definition_id = req[r].exercise_id
        /\ req[r].status = 200

\* C19: a request that fails leaves the committed drafts, CompletedSessions
\* and CompletedSets as they were: every step that changes one of these
\* tables is the step at which a request ends with a success status, so no
\* step of a failing Start, Replace, AddExercise, Finish or Discard, flushes
\* before the failure included, creates, changes or deletes a row.
C19_FailedRequestChangesNothing ==
    [][(<< workout_drafts, completed_sessions, completed_sets >>'
            # << workout_drafts, completed_sessions, completed_sets >>)
       => \E r \in Requests :
              /\ req[r].pc # "done"
              /\ req'[r].pc = "done"
              /\ req'[r].status \in {200, 201, 204}]_vars

\* C19's case: a Finish failed after it had flushed its CompletedSession; no
\* session is committed and the draft is still there.
C19_Witness ==
    \E r \in Requests :
        /\ FinishedBy(r)
        /\ req[r].status = 500
        /\ next_session_id = 2
        /\ completed_sessions = {}
        /\ Val(req[r].draft) \in workout_drafts

\* C20: completed records are immutable.  No step of a Start, Replace,
\* AddExercise, Finish or Discard of any user removes a committed CompletedSession or
\* changes a field of it, or adds, removes or changes a CompletedSet of a
\* committed session.
C20_CompletedRecordsImmutable ==
    [][/\ completed_sessions \subseteq completed_sessions'
       /\ \A cse \in completed_sessions :
              /\ \A other \in completed_sessions' :
                     other.id = cse.id => other = cse
              /\ {cs \in completed_sets' : cs.session_id = cse.id}
                     = {cs \in completed_sets : cs.session_id = cse.id}]_vars

\* C20's case: a second session with sets was committed by the other user
\* beside a first one with sets.
C20_Witness ==
    \E a \in completed_sessions, b \in completed_sessions :
        /\ a.id < b.id
        /\ a.user_id # b.user_id
        /\ SetsOfSession(a.id) # {}
        /\ SetsOfSession(b.id) # {}

\* C21: a CompletedSession keeps the template_id of the draft it was
\* finished from, also after the template or its split is deleted; the
\* session stays in place.
C21_TemplateIdKept ==
    \A c \in converted :
        \E cse \in completed_sessions :
            /\ cse.id = c.session_id
            /\ cse.template_id = c.draft.template_id

\* C22: the CompletedSession of a successful Finish has the started_at and
\* the template_id of the draft that Finish read, and the caller as owner.
C22_SessionCopiesDraft ==
    \A r \in Requests :
        (FinishedBy(r) /\ req[r].status = 200) =>
            \E cse \in completed_sessions :
                /\ cse.id = Val(req[r].response).id
                /\ cse.user_id = req[r].user
                /\ cse.started_at = Val(req[r].draft).started_at
                /\ cse.template_id = Val(req[r].draft).template_id
                /\ Val(req[r].response).started_at = cse.started_at
                /\ Val(req[r].response).template_id = cse.template_id

\* C22's case: a draft of a template, started at an earlier instant than the
\* Finish, was finished while the other user has a session too.
C22_Witness ==
    \E r \in Requests :
        /\ FinishedBy(r) /\ req[r].status = 200
        /\ \E cse \in completed_sessions : cse.user_id # req[r].user
        /\ Val(req[r].draft).template_id # None
        /\ Val(req[r].draft).started_at < Val(req[r].response).completed_at

\* The valid sets of one exercise entry numbered from 1 in their order, as
\* << definition_id, set_number, reps, weight >>, and those of all the
\* entries of a draft, entry after entry.
NumberedOfEntry(definition_id, sets) ==
    LET valid == ValidOfEntry(definition_id, sets)
    IN [i \in 1 .. Len(valid) |->
           << valid[i][1], i, valid[i][2], valid[i][3] >>]
RECURSIVE NumberedOfDraft(_)
NumberedOfDraft(session_data) ==
    IF session_data = << >> THEN << >>
    ELSE NumberedOfEntry(Head(session_data).definition_id,
                         Head(session_data).sets)
         \o NumberedOfDraft(Tail(session_data))

\* C23: the CompletedSets in the response of a successful Finish come in the
\* order of the draft's exercise entries and, within an entry, in ascending
\* set_number.
C23_ResponseInDraftOrder ==
    \A r \in Requests :
        (FinishedBy(r) /\ req[r].status = 200) =>
            LET sets == Val(req[r].response).completed_sets
            IN [i \in 1 .. Len(sets) |->
                   << sets[i].exercise_definition_id, sets[i].set_number,
                      sets[i].reps, sets[i].weight >>]
               = NumberedOfDraft(Val(req[r].draft).session_data)

\* C23's case: a Finish answered with the sets of two exercise entries, two
\* of them of the first entry.
C23_Witness ==
    \E r \in Requests :
        /\ FinishedBy(r) /\ req[r].status = 200
        /\ Len(Val(req[r].draft).session_data) > 1
        /\ Len(Val(req[r].response).completed_sets) > 2

\* The draft row with the fields a mutation of the draft writes.
Rewritten(draft, session_data, updated_at) ==
    [draft EXCEPT !.session_data = session_data, !.updated_at = updated_at]

\* C24: a successful AddExercise appends exactly one entry at the end of the
\* draft's exercise list (the definition_id asked for, the current name of
\* the exercise, one empty set, is_done false) and sets updated_at to the
\* current time; the other entries and their order, and the draft's id,
\* template_id and started_at stay as they were.  First conjunct: the
\* handler's step; second: the commit of its transaction.
C24_AddAppendsOneEntry ==
    [][\A r \in Requests :
        LET draft == Val(req[r].draft)
            name == (CHOOSE e \in exercise_definitions :
                        e.id = req[r].exercise_id).name
            appended ==
                Append(draft.session_data,
                       [definition_id |-> req[r].exercise_id, name |-> name,
                        sets |-> << [reps |-> None, weight |-> None,
                                     completed |-> FALSE] >>,
                        is_done |-> FALSE])
        IN /\ (req[r].pc = "add_flush" /\ req'[r].status = 200) =>
                  /\ draft \in workout_drafts
                  /\ req'[r].response =
                         Some(WorkoutDraftRead(Rewritten(draft, appended, now)))
           /\ (req[r].op = "add" /\ req[r].pc = "commit"
                   /\ req'[r].pc = "done") =>
                  /\ draft \in workout_drafts
                  /\ \E t \in 0 .. now :
                         /\ Val(req[r].response).updated_at = t
                         /\ workout_drafts' =
                                (workout_drafts \ {draft})
                                    \cup {Rewritten(draft, appended, t)}]_vars

\* C24's case: an exercise was added to a draft that had entries, at a later
\* instant than the Start.
C24_Witness ==
    \E r \in Requests, d \in workout_drafts :
        /\ req[r].op = "add" /\ req[r].pc = "done" /\ req[r].status = 200
        /\ d.id = Val(req[r].draft).id
        /\ Len(d.session_data) > 2
        /\ d.updated_at > d.started_at

\* C25: AddExercise answers NotFound when the caller has no draft, and when
\* the exercise does not exist or is another user's, with the same response
\* in both of these cases; no draft is changed.  First conjunct: the step
\* that looks for the draft; second: the step that looks for the exercise.
C25_AddNotFound ==
    [][\A r \in Requests :
        LET failed == /\ req'[r].pc = "done"
                      /\ req'[r].status = 404
                      /\ req'[r].response = None
                      /\ workout_drafts' = workout_drafts
        IN /\ (/\ req[r].pc = "idle" /\ req'[r].op = "add"
               /\ DraftsOf(req'[r].user) = {}) => failed
           /\ (/\ req[r].pc = "add_flush" /\ req'[r] # req[r]
               /\ ~\E e \in exercise_definitions :
                       /\ e.id = req[r].exercise_id
                       /\ e.user_id = req[r].user) => failed]_vars

\* C25's case: user 2, who has a draft, asked for exercise 2 of user 1.
C25_Witness ==
    \E r \in Requests :
        /\ req[r].op = "add" /\ req[r].pc = "done" /\ req[r].status = 404
        /\ req[r].user = 2
        /\ ~IsNone(req[r].draft)
        /\ Val(req[r].draft) \in workout_drafts
        /\ \E e \in exercise_definitions :
               e.id = req[r].exercise_id /\ e.user_id = 1

\* C26: a Start of a user without a draft that names a template which does
\* not exist, or whose split is not the user's, answers NotFound and creates
\* no draft.
C26_StartUnknownTemplate ==
    [][\A r \in Requests :
        (/\ req[r].pc = "start_insert" /\ req'[r] # req[r]
         /\ ~IsNone(req[r].template_id)
         /\ ~\E t \in templates, sp \in splits :
                 /\ t.id = Val(req[r].template_id)
                 /\ sp.id = t.split_id
                 /\ sp.user_id = req[r].user) =>
            /\ req'[r].pc = "done"
            /\ req'[r].status = 404
            /\ req'[r].response = None
            /\ req'[r].pending = NoPending
            /\ workout_drafts' = workout_drafts
            /\ DraftsOf(req[r].user) = {}]_vars

\* C26's case: user 2, without a draft, named template 1 of user 1 and got
\* NotFound.
C26_Witness ==
    \E r \in Requests :
        /\ req[r].op = "start" /\ req[r].pc = "done" /\ req[r].status = 404
        /\ req[r].user = 2
        /\ req[r].template_id = Some(1)
        /\ \E t \in templates : t.id = 1
        /\ DraftsOf(2) = {}

\* C27: Replace overwrites the draft's session_data with exactly the payload
\* and sets updated_at to the current time; id, owner, template_id and
\* started_at stay; a Get that follows returns the stored payload.  Without
\* a draft Replace answers NotFound and creates nothing.  The conjuncts: the
\* handler's step, the commit of its transaction, the Replace that finds no
\* draft, and a Get.
C27_ReplaceOverwrites ==
    [][\A r \in Requests :
        LET draft == Val(req[r].draft) IN
        /\ (req[r].pc = "update_flush" /\ req'[r].status = 200) =>
               /\ draft \in workout_drafts
               /\ req'[r].response =
                      Some(WorkoutDraftRead(
                               Rewritten(draft, req[r].payload, now)))
        /\ (req[r].op = "update" /\ req[r].pc = "commit"
                /\ req'[r].pc = "done") =>
               /\ draft \in workout_drafts
               /\ workout_drafts' =
                      (workout_drafts \ {draft})
                          \cup {Rewritten(draft, req[r].payload,
                                          Val(req[r].response).updated_at)}
        /\ (/\ req[r].pc = "idle" /\ req'[r].op = "update"
            /\ DraftsOf(req'[r].user) = {}) =>
               /\ req'[r].pc = "done"
               /\ req'[r].status = 404
               /\ req'[r].response = None
               /\ workout_drafts' = workout_drafts
        /\ (req[r].pc = "idle" /\ req'[r].op = "get"
                /\ DraftsOf(req'[r].user) # {}) =>
               /\ req'[r].status = 200
               /\ \E d \in DraftsOf(req'[r].user) :
                      req'[r].response = Some(WorkoutDraftRead(d))]_vars

\* C27's case: a Get returned the payload that a Replace had stored, at a
\* later instant than the Start, in a draft of a template.
C27_Witness ==
    \E r \in Requests :
        /\ req[r].op = "get" /\ req[r].pc = "done" /\ req[r].status = 200
        /\ Val(req[r].response).session_data \in ClockPayloads
        /\ Val(req[r].response).template_id # None
        /\ Val(req[r].response).updated_at > Val(req[r].response).started_at

\* C28: when the last committed change of a user's draft slot is a
\* successful Discard (no Start after it), the user has no draft, so that Get
\* answers NotFound and a Start creates a fresh draft.
C28_NoDraftAfterDiscard ==
    \A u \in Users : last_event[u] = "discarded" => DraftsOf(u) = {}

\* The volume of a set of rows.
RECURSIVE SumOfVolumes(_)
SumOfVolumes(rows) ==
    IF rows = {} THEN 0
    ELSE LET x == CHOOSE y \in rows : TRUE
         IN x.weight * x.reps + SumOfVolumes(rows \ {x})

\* C29: ExerciseSummary of an owned exercise with at least one CompletedSet
\* answers with total_sessions = the number of distinct sessions of its
\* sets, total_sets = the number of its sets, total_volume = the sum of
\* weight * reps over its sets, average_session_score = the sum of the
\* epley_score of its sets divided by total_sessions, and last_performed =
\* the latest completed_at of those sessions.
C29_SummaryStatistics ==
    \A r \in Requests :
        LET sets == {cs \in completed_sets :
                        cs.exercise_definition_id = req[r].exercise_id}
            sessions == {cse \in completed_sessions :
                            \E cs \in sets : cs.session_id = cse.id}
            summary == Val(req[r].response)
        IN (AskedOwn(r, "summary") /\ sets # {}) =>
               /\ req[r].status = 200
               /\ summary.total_sessions = Cardinality(sessions)
               /\ summary.total_sets = Cardinality(sets)
               /\ summary.total_volume = SumOfVolumes(sets)
               /\ summary.average_session_score.den = Cardinality(sessions)
               /\ summary.average_session_score.num = SumOfScores(sets)
               /\ \E latest \in sessions :
                      /\ \A cse \in sessions :
                             cse.completed_at <= latest.completed_at
                      /\ summary.last_performed = << latest.completed_at >>

\* C29's case: the summary of an exercise with sets in two sessions that
\* were completed at different instants, several sets in each.
C29_Witness ==
    \E r \in Requests :
        /\ AskedOwn(r, "summary")
        /\ req[r].status = 200
        /\ Val(req[r].response).total_sessions = 2
        /\ Val(req[r].response).total_sets > 4
        /\ \E a \in completed_sessions, b \in completed_sessions :
               a.completed_at < b.completed_at

\* C30: the best set ExerciseSummary reports for an exercise with sets is a
\* set of the highest epley_score among all the sets of the exercise:
\* best_set_epley_score is at least every set's score, and the weight and
\* reps reported are those of one set, the first of that score among the
\* rows in the order the handler read them.
C30_BestSetIsMaximal ==
    \A r \in Requests :
        LET sets == {cs \in completed_sets :
                        cs.exercise_definition_id = req[r].exercise_id}
            rows == req[r].rows
            summary == Val(req[r].response)
        IN (AskedOwn(r, "summary") /\ sets # {}) =>
               /\ {rows[i] : i \in 1 .. Len(rows)} = sets
               /\ \A cs \in sets :
                      cs.epley_score <= summary.best_set_epley_score
               /\ \E i \in 1 .. Len(rows) :
                      /\ rows[i].epley_score = summary.best_set_epley_score
                      /\ rows[i].weight = summary.best_set_weight
                      /\ rows[i].reps = summary.best_set_reps
                      /\ \A j \in 1 .. i - 1 :
                             rows[j].epley_score < rows[i].epley_score

\* C30's case: two sets of the highest score with different weights, and
\* the one of the higher id read first and reported.
C30_Witness ==
    \E r \in Requests :
        /\ AskedOwn(r, "summary")
        /\ req[r].status = 200
        /\ \E i \in 1 .. Len(req[r].rows), j \in 1 .. Len(req[r].rows) :
               /\ i < j
               /\ req[r].rows[i].id > req[r].rows[j].id
               /\ req[r].rows[i].epley_score = req[r].rows[j].epley_score
               /\ req[r].rows[i].weight # req[r].rows[j].weight
               /\ req[r].rows[i].weight = Val(req[r].response).best_set_weight
               /\ req[r].rows[i].epley_score
                      = Val(req[r].response).best_set_epley_score

\* C31: renaming an exercise definition changes no draft: every committed
\* draft keeps its entries and their names as they were snapshotted, and a
\* Get after the rename returns them.
C31_RenameKeepsDrafts ==
    [][\A r \in Requests :
        /\ (exercise_definitions' # exercise_definitions) =>
               workout_drafts' = workout_drafts
        /\ (req[r].pc = "idle" /\ req'[r].op = "get"
                /\ req'[r].status = 200) =>
               \E d \in workout_drafts :
                   /\ d.user_id = req'[r].user
                   /\ Val(req'[r].response).session_data = d.session_data]_vars

\* C31's case: a Get returned a draft with two entries whose names are no
\* longer the names of their exercises: one copied from the template by
\* Start, one added by AddExercise, both renamed afterwards.
C31_Witness ==
    \E r \in Requests :
        /\ req[r].op = "get" /\ req[r].pc = "done" /\ req[r].status = 200
        /\ \E i, j \in 1 .. Len(Val(req[r].response).session_data) :
               LET a == Val(req[r].response).session_data[i]
                   b == Val(req[r].response).session_data[j]
               IN /\ a.definition_id = 5 /\ a.name = "curl"
                  /\ b.definition_id = 2 /\ b.name = "bench"
                  /\ \E e \in exercise_definitions :
                         e.id = 5 /\ e.name # "curl"
                  /\ \E e \in exercise_definitions :
                         e.id = 2 /\ e.name # "bench"

\* C32: the deletion of an exercise definition that a CompletedSet
\* references does not go through: in every state every CompletedSet
\* references an exercise definition that exists, and after such a deletion
\* was asked for by its owner the exercise is still there, with every
\* CompletedSet in a committed session.
C32_CompletedSetsKeepExercise ==
    /\ \A cs \in completed_sets :
           /\ \E e \in exercise_definitions :
                  e.id = cs.exercise_definition_id
           /\ \E cse \in completed_sessions : cse.id = cs.session_id
    /\ \A r \in Requests :
           (/\ req[r].op = "delete_exercise" /\ req[r].pc = "done"
            /\ \E cs \in completed_sets :
                   cs.exercise_definition_id = req[r].exercise_id) =>
               \E e \in exercise_definitions :
                   e.id = req[r].exercise_id /\ e.user_id = 1

\* C32's case: user 1 asked to delete exercise 2 while a session of user 1
\* has a set of it.
C32_Witness ==
    \E r \in Requests :
        /\ req[r].op = "delete_exercise" /\ req[r].pc = "done"
        /\ req[r].user = 1
        /\ \E cs \in completed_sets, cse \in completed_sessions :
               /\ cs.exercise_definition_id = req[r].exercise_id
               /\ cse.id = cs.session_id /\ cse.user_id = 1

\* A draft's session_data with every completed and is_done flag cleared, and
\* with every flag raised.
Flagged(session_data, flag) ==
    [j \in 1 .. Len(session_data) |->
        [definition_id |-> session_data[j].definition_id,
         name |-> session_data[j].name,
         sets |-> [i \in 1 .. Len(session_data[j].sets) |->
                      [reps |-> session_data[j].sets[i].reps,
                       weight |-> session_data[j].sets[i].weight,
                       completed |-> flag]],
         is_done |-> flag]]

\* C33: Finish decides from reps and weight alone: the sets it records,
\* their numbers and their scores, and the session's score, are those of
\* the draft with every completed and is_done flag cleared, and those of the
\* draft with every flag raised.
C33_FlagsHaveNoEffect ==
    \A r \in Requests :
        (FinishedBy(r) /\ req[r].status = 200) =>
            LET sets == Val(req[r].response).completed_sets
                data == Val(req[r].draft).session_data
                recorded == [i \in 1 .. Len(sets) |->
                                << sets[i].exercise_definition_id,
                                   sets[i].set_number, sets[i].reps,
                                   sets[i].weight >>]
            IN /\ recorded = NumberedOfDraft(Flagged(data, FALSE))
               /\ recorded = NumberedOfDraft(Flagged(data, TRUE))
               /\ \A i \in 1 .. Len(sets) :
                      sets[i].epley_score
                          = sets[i].weight * (30 + sets[i].reps)
               /\ Val(req[r].response).session_score
                      = SumOfScores(SetsOfSession(Val(req[r].response).id))

\* C33's case: a Finish of a draft with a set marked completed that has no
\* reps and a set not marked completed with reps and weight; one set is
\* recorded.
C33_Witness ==
    \E r \in Requests :
        /\ FinishedBy(r) /\ req[r].status = 200
        /\ Len(Val(req[r].response).completed_sets) = 1
        /\ \E j \in 1 .. Len(Val(req[r].draft).session_data) :
               LET sets == Val(req[r].draft).session_data[j].sets
               IN \E a, b \in 1 .. Len(sets) :
                      /\ sets[a].completed /\ sets[a].reps = None
                      /\ ~sets[b].completed
                      /\ sets[b].reps # None /\ sets[b].weight # None
                      /\ sets[b].reps[1] > 0 /\ sets[b].weight[1] > 0

\* C34: a Finish and a Discard of one user that run concurrently on the same
\* draft do not both take effect: no Discard answers 204 for a draft from
\* which a CompletedSession is committed.
C34_FinishOrDiscard ==
    \A r \in Requests :
        (req[r].op = "discard" /\ req[r].pc = "done" /\ req[r].status = 204) =>
            ~\E c \in converted, cse \in completed_sessions :
                 /\ c.draft.id = Val(req[r].draft).id
                 /\ cse.id = c.session_id

\* C35: no successful mutation of a draft is lost: the commit of a
\* successful AddExercise keeps every exercise that the committed draft
\* holds, so that after two concurrent successful AddExercise calls for
\* different exercises both are in the draft.
C35_NoLostAdd ==
    [][\A r \in Requests :
        (req[r].op = "add" /\ req[r].pc = "commit" /\ req'[r].pc = "done") =>
            \A d \in workout_drafts :
                \E after \in workout_drafts' :
                    /\ after.id = d.id
                    /\ \A i \in 1 .. Len(d.session_data) :
                           \E j \in 1 .. Len(after.session_data) :
                               after.session_data[j].definition_id
                                   = d.session_data[i].definition_id]_vars

\* C36: the draft and history operations of one user never affect another
\* user: a step that creates, changes or deletes a draft or a
\* CompletedSession of user u is a step of a request of u, and every
\* CompletedSession a step creates is owned by the caller of that request.
C36_UsersAreIsolated ==
    [][\A u \in Users :
        LET drafts_before == {d \in workout_drafts : d.user_id = u}
            drafts_after == {d \in workout_drafts' : d.user_id = u}
            sessions_before == {c \in completed_sessions : c.user_id = u}
            sessions_after == {c \in completed_sessions' : c.user_id = u}
        IN (drafts_after # drafts_before \/ sessions_after # sessions_before)
           => \E r \in Requests :
                  /\ req'[r] # req[r]
                  /\ req[r].user = u
                  /\ req[r].op \in {"start", "update", "add", "finish",
                                     "discard"}]_vars

\* C36's case: user 2 finished a workout with sets while user 1 has a draft
\* with entries.
C36_Witness ==
    \E r \in Requests :
        /\ FinishedBy(r) /\ req[r].status = 200 /\ req[r].user = 2
        /\ \E d \in workout_drafts : d.user_id = 1 /\ d.session_data # << >>
        /\ \E c \in completed_sessions :
               c.user_id = 2 /\ SetsOfSession(c.id) # {}

\* C37: a draft that Start created and that only AddExercise modified holds
\* no two entries of the same definition_id, and every definition_id in it
\* is an exercise of the draft's user.
C37_NoDuplicateEntries ==
    \A d \in workout_drafts :
        /\ \A i, j \in 1 .. Len(d.session_data) :
               d.session_data[i].definition_id
                   = d.session_data[j].definition_id => i = j
        /\ \A i \in 1 .. Len(d.session_data) :
               \E e \in exercise_definitions :
                   /\ e.id = d.session_data[i].definition_id
                   /\ e.user_id = d.user_id

\* C38: a Start of a user who has a draft never fails: whatever template_id
\* it carries, one that does not exist or is not the user's included, it
\* answers 201 with the existing draft and changes nothing.
C38_StartWithDraftNeverFails ==
    [][\A r \in Requests :
        (/\ req[r].pc = "idle" /\ req'[r].op = "start"
         /\ DraftsOf(req'[r].user) # {}) =>
            /\ req'[r].pc = "done"
            /\ req'[r].status = 201
            /\ \E d \in DraftsOf(req'[r].user) :
                   req'[r].response = Some(WorkoutDraftRead(d))
            /\ workout_drafts' = workout_drafts]_vars

\* C38's case: a Start naming a template that does not exist, or that is
\* another user's, was answered with the draft the user already had.
C38_Witness ==
    \E r \in Requests :
        /\ req[r].op = "start" /\ req[r].pc = "done" /\ req[r].status = 201
        /\ ~IsNone(req[r].template_id)
        /\ OwnedTemplates(req[r].user, Val(req[r].template_id)) = {}
        /\ \E d \in DraftsOf(req[r].user) :
               /\ d.template_id # req[r].template_id
               /\ req[r].response = Some(WorkoutDraftRead(d))

RECURSIVE SumOfTotalScores(_)
SumOfTotalScores(history) ==
    IF history = << >> THEN 0
    ELSE Head(history).total_score + SumOfTotalScores(Tail(history))

RECURSIVE SumOfSetCounts(_)
SumOfSetCounts(history) ==
    IF history = << >> THEN 0
    ELSE Len(Head(history).sets) + SumOfSetCounts(Tail(history))

\* The summaries get_exercise_summary can answer on the committed data: one
\* for every order in which its SELECT can return the rows.
SummariesOf(exercise_id) ==
    LET exercise == CHOOSE e \in exercise_definitions : e.id = exercise_id
        sets == ExerciseSets(exercise_id)
    IN IF sets = {} THEN {Val(EmptySummary(exercise))}
       ELSE {Val(SummaryOf(exercise, rows)) : rows \in ScanOrders(sets)}

\* C39: ExerciseHistory and ExerciseSummary agree on the same committed
\* data: the number of history entries is total_sessions, the number of sets
\* over the entries is total_sets, and the sum of the entries' total_score
\* is average_session_score * total_sessions.
C39_HistoryAgreesWithSummary ==
    \A r \in Requests :
        (req[r].op = "history" /\ req[r].pc = "done" /\ req[r].status = 200) =>
            LET history == Val(req[r].response) IN
            \A summary \in SummariesOf(req[r].exercise_id) :
                /\ Len(history) = summary.total_sessions
                /\ SumOfSetCounts(history) = summary.total_sets
                /\ SumOfTotalScores(history)
                       * summary.average_session_score.den
                   = summary.average_session_score.num
                       * summary.total_sessions

\* C39's case: the history of an exercise with two sessions, one of them
\* with two sets or more of the exercise.
C39_Witness ==
    \E r \in Requests :
        /\ req[r].op = "history" /\ req[r].pc = "done" /\ req[r].status = 200
        /\ Len(Val(req[r].response)) = 2
        /\ SumOfSetCounts(Val(req[r].response)) > 2
        /\ SumOfTotalScores(Val(req[r].response)) > 0

====
